---- MODULE Spec2Model ----
(***************************************************************************)
(* Multi-source consolidation of the pitch-deck pipeline:                  *)
(* OrchestratorAgent.extract and the fill/merge helpers it drives          *)
(* (WebSearchAgent.enhance_results, _fill_missing_financial_metrics,       *)
(* _integrate_results, _process_news_for_risks,                            *)
(* _extract_founder_linkedin_data) and ModularExtractor._merge_data.       *)
(*                                                                         *)
(* JSON scalars are tagged strings ("int:20", "str:Acme", "bool:true",     *)
(* "null"); "absent" stands for a key that is not in the dict.  Free text  *)
(* that the code scans character by character is a sequence of one-letter  *)
(* strings.                                                                *)
(***************************************************************************)
EXTENDS Integers, Sequences, FiniteSets, TLC

-----------------------------------------------------------------------------
(* Values and Python truthiness                                            *)

Absent == "absent"
Null == "null"
EmptyStr == "str:"
Zero == "int:0"
FalseV == "bool:false"
TrueV == "bool:true"

\* `not x` for the scalars above; a missing key read with dict.get gives None
Truthy(v) == v \notin {Absent, Null, EmptyStr, Zero, FalseV}

\* a value that is present and not None
NonNull(v) == v \notin {Absent, Null}

-----------------------------------------------------------------------------
(* Text                                                                    *)

RECURSIVE Join(_)
Join(s) == IF s = <<>> THEN "" ELSE s[1] \o Join(Tail(s))

\* str(x) of a text, as a tagged scalar
StrVal(s) == "str:" \o Join(s)

Digits == <<"0", "1", "2", "3", "4", "5", "6", "7", "8", "9">>

IsDigit(c) == \E i \in 1..10 : Digits[i] = c

DigitVal(c) == (CHOOSE i \in 1..10 : Digits[i] = c) - 1

RECURSIVE DigitsToInt(_, _)
DigitsToInt(s, acc) ==
    IF s = <<>> THEN acc ELSE DigitsToInt(Tail(s), acc * 10 + DigitVal(s[1]))

IntVal(n) == "int:" \o ToString(n)

\* str.lower() letter by letter
LowerOf ==
    ("A" :> "a") @@
    ("B" :> "b") @@
    ("C" :> "c") @@
    ("D" :> "d") @@
    ("E" :> "e") @@
    ("F" :> "f") @@
    ("G" :> "g") @@
    ("H" :> "h") @@
    ("I" :> "i") @@
    ("J" :> "j") @@
    ("K" :> "k") @@
    ("L" :> "l") @@
    ("M" :> "m") @@
    ("N" :> "n") @@
    ("O" :> "o") @@
    ("P" :> "p") @@
    ("Q" :> "q") @@
    ("R" :> "r") @@
    ("S" :> "s") @@
    ("T" :> "t") @@
    ("U" :> "u") @@
    ("V" :> "v") @@
    ("W" :> "w") @@
    ("X" :> "x") @@
    ("Y" :> "y") @@
    ("Z" :> "z")

LowerChar(c) == IF c \in DOMAIN LowerOf THEN LowerOf[c] ELSE c

RECURSIVE Lower(_)
Lower(s) == IF s = <<>> THEN <<>> ELSE <<LowerChar(s[1])>> \o Lower(Tail(s))

\* `sub in text` for Python strings
Contains(text, sub) ==
    \E i \in 0..(Len(text) - Len(sub)) : SubSeq(text, i + 1, i + Len(sub)) = sub

-----------------------------------------------------------------------------
(* Dicts                                                                   *)

\* keys of main_category / metrics (a StartupMetrics dump) that the model follows
MCFields == {"company_name", "annual_recurring_revenue", "industry",
             "website_link", "year_of_founding", "founder_background",
             "founder_linkedin_summary", "regulatory_risks", "trend_risks",
             "news_sentiment", "recent_news_summary"}

\* keys of main_category["company_info"] that the model follows
CIFields == {"company_name", "industry", "website_link", "year_of_founding",
             "linkedin_profile_ceo", "financial_summary", "pitch_deck_summary"}

EmptyF(S) == [k \in S |-> Absent]

\* company_info: st = "absent" (no such key) or "map"
NoCI == [st |-> "absent", f |-> EmptyF(CIFields)]
EmptyCI == [st |-> "map", f |-> EmptyF(CIFields)]

\* main_category / metrics: st = "absent" (no such key), "null" (None) or "map"
NoMC == [st |-> "absent", f |-> EmptyF(MCFields), ci |-> NoCI]
NullMC == [st |-> "null", f |-> EmptyF(MCFields), ci |-> NoCI]
EmptyMC == [st |-> "map", f |-> EmptyF(MCFields), ci |-> NoCI]

\* d[k] = v
SetF(d, k, v) == [d EXCEPT ![k] = v]

-----------------------------------------------------------------------------
(* WebSearchAgent                                                          *)

\* WebSearchAgent._extract_company_name(main_category): "RAISE" is the
\* TypeError of `"company_info" in None`; the business_name, extracted_text
\* and "company"-keyed lookups find nothing in a StartupMetrics dump
web_extract_company_name(mc) ==
    IF mc.st = "null" THEN "RAISE"
    ELSE IF mc.ci.st = "map" /\ Truthy(mc.ci.f["company_name"])
         THEN mc.ci.f["company_name"]
    ELSE IF Truthy(mc.f["company_name"]) THEN mc.f["company_name"]
    ELSE Null

\* the fields of main_category that line 165 moves into a new company_info
MovedFields == {"year_of_founding", "industry", "website_link"}

\* the company_info fields that search_company_info may fill
CompanySearchFields == {"year_of_founding", "industry", "website_link"}

\* the top-level metrics that search_financial_data may fill
FinancialSearchFields == {"annual_recurring_revenue"}

\* lines 157-169: the shallow copy and the creation of company_info
restructure_main_category(mc) ==
    IF mc.ci.st = "map" THEN mc
    ELSE [st |-> "map",
          f |-> [k \in MCFields |-> IF k \in MovedFields THEN Absent ELSE mc.f[k]],
          ci |-> [st |-> "map",
                  f |-> [k \in CIFields |->
                           IF k \in MovedFields THEN mc.f[k] ELSE Absent]]]

\* lines 171-199: a field is missing when absent or falsy, and is filled by a
\* truthy web value
fill_company_info(e, company_data) ==
    LET missing == {k \in CompanySearchFields : ~Truthy(e.ci.f[k])}
    IN  [e EXCEPT !.ci.f = [k \in CIFields |->
            IF k \in missing /\ Truthy(company_data[k])
            THEN company_data[k] ELSE e.ci.f[k]]]

\* lines 180-188 and 200-208, with the missing list taken before any fill
fill_financial_fields(e0, e, financial_data) ==
    LET missing == {k \in FinancialSearchFields : ~Truthy(e0.f[k])}
    IN  [e EXCEPT !.f = [k \in MCFields |->
            IF k \in missing /\ Truthy(financial_data[k])
            THEN financial_data[k] ELSE e.f[k]]]

\* lines 210-217
fill_social_profiles(e, ceo_linkedin) ==
    IF Truthy(e.ci.f["website_link"]) /\ ~Truthy(e.ci.f["linkedin_profile_ceo"])
       /\ Truthy(ceo_linkedin)
    THEN [e EXCEPT !.ci.f["linkedin_profile_ceo"] = ceo_linkedin]
    ELSE e

\* the replies of the reviewing LLM that the model follows
LlmReplies == {"nojson", "echo", "addname", "remove"}

\* WebSearchAgent._integrate_data_with_llm: the reply's JSON replaces the data;
\* without JSON (or on an exception) the data is returned as it is
_integrate_data_with_llm(data, company_name, reply) ==
    CASE reply = "addname" -> [data EXCEPT !.ci.f["company_name"] = company_name]
      [] reply = "remove" ->
            [data EXCEPT !.f["annual_recurring_revenue"] = Absent,
                         !.f["founder_background"] = Absent]
      [] OTHER -> data

\* WebSearchAgent._enhance_main_category up to the LLM check (lines 156-217)
enhance_before_llm(mc, web) ==
    LET e1 == restructure_main_category(mc)
        e2 == fill_company_info(e1, web.company_data)
        e3 == fill_financial_fields(e1, e2, web.financial_data)
    IN  fill_social_profiles(e3, web.ceo_linkedin)

\* WebSearchAgent._enhance_main_category
_enhance_main_category(mc, company_name, web) ==
    _integrate_data_with_llm(enhance_before_llm(mc, web), company_name, web.reply)

-----------------------------------------------------------------------------
(* OrchestratorAgent: the news classifier                                  *)

\* regulatory_keywords (orchestrator_agent.py 562-566)
regulatory_keywords ==
    {<<"r", "e", "g", "u", "l", "a", "t", "i", "o", "n">>,
    <<"c", "o", "m", "p", "l", "i", "a", "n", "c", "e">>,
    <<"l", "a", "w">>,
    <<"l", "e", "g", "a", "l">>,
    <<"l", "e", "g", "i", "s", "l", "a", "t", "i", "o", "n">>,
    <<"r", "e", "g", "u", "l", "a", "t", "o", "r", "y">>,
    <<"r", "e", "g", "u", "l", "a", "t", "o", "r">>,
    <<"f", "i", "n", "e">>,
    <<"p", "e", "n", "a", "l", "t", "y">>,
    <<"s", "a", "n", "c", "t", "i", "o", "n">>,
    <<"i", "n", "v", "e", "s", "t", "i", "g", "a", "t", "i", "o", "n">>,
    <<"l", "a", "w", "s", "u", "i", "t">>,
    <<"l", "i", "t", "i", "g", "a", "t", "i", "o", "n">>,
    <<"c", "o", "u", "r", "t">>,
    <<"a", "n", "t", "i", "t", "r", "u", "s", "t">>}

\* trend_risk_keywords (orchestrator_agent.py 569-573)
trend_risk_keywords ==
    {<<"d", "i", "s", "r", "u", "p", "t">>,
    <<"d", "i", "s", "r", "u", "p", "t", "i", "o", "n">>,
    <<"o", "b", "s", "o", "l", "e", "t", "e">>,
    <<"o", "b", "s", "o", "l", "e", "s", "c", "e", "n", "c", "e">>,
    <<"d", "e", "c", "l", "i", "n", "e">>,
    <<"d", "e", "c", "l", "i", "n", "e", " ", "i", "n", " ", "d", "e", "m", "a", "n", "d">>,
    <<"m", "a", "r", "k", "e", "t", " ", "s", "h", "i", "f", "t">>,
    <<"c", "h", "a", "n", "g", "i", "n", "g", " ", "m", "a", "r", "k", "e", "t">>,
    <<"t", "r", "e", "n", "d", " ", "c", "h", "a", "n", "g", "e">>,
    <<"t", "e", "c", "h", "n", "o", "l", "o", "g", "i", "c", "a", "l", " ", "s", "h", "i", "f", "t">>,
    <<"i", "n", "n", "o", "v", "a", "t", "i", "o", "n", " ", "c", "h", "a", "l", "l", "e", "n", "g", "e">>,
    <<"m", "a", "r", "k", "e", "t", " ", "s", "h", "r", "i", "n", "k">>}

Positive == <<"p", "o", "s", "i", "t", "i", "v", "e">>
Negative == <<"n", "e", "g", "a", "t", "i", "v", "e">>

\* the four fields every call starts from (lines 525-530)
DefaultRisk == [regulatory_risks |-> FalseV, trend_risks |-> FalseV,
                news_sentiment |-> "str:neutral", recent_news_summary |-> EmptyStr]

\* f"{title} {description} {summary}"
full_text(nc) == nc.title \o <<" ">> \o nc.description \o <<" ">> \o nc.summary

\* keyword.lower() for every keyword of a vocabulary
lowered(vocabulary) == {Lower(kw) : kw \in vocabulary}

regulatory_lowered == lowered(regulatory_keywords)
trend_risk_lowered == lowered(trend_risk_keywords)

\* lines 582-586 and 589-593: a lowered term of the vocabulary occurs in the
\* lowered text, or is an element of the keyword list
keyword_hit(terms, nc) ==
    \E text \in {Lower(full_text(nc))} :
        \/ \E kw \in terms : Contains(text, kw)
        \/ \E kw \in terms : \E i \in 1..Len(nc.keywords) : nc.keywords[i] = kw

\* lines 595-600
sentiment_of(tone) ==
    IF Contains(Lower(tone), Positive) THEN "str:positive"
    ELSE IF Contains(Lower(tone), Negative) THEN "str:negative"
    ELSE "str:neutral"

\* the bool a reply's JSON gives for a flag: result.get(flag, False)
BoolVal(b) == IF b THEN TrueV ELSE FalseV

\* lines 618-636: what the fallback's reply does to the two flags.  "raise" is
\* an exception of llm.invoke, "json" and "fenced" carry an object, "list" is
\* valid JSON without .get, "garbage" and "badjson" cannot be decoded
llm_risk_flags(ra, llm) ==
    IF llm.kind \in {"json", "fenced"}
    THEN [ra EXCEPT !.regulatory_risks = BoolVal(llm.regulatory),
                    !.trend_risks = BoolVal(llm.trend)]
    ELSE ra

\* lines 618-636: the exception the fallback ends with.  llm.invoke may raise; a
\* decoded list has no .get; the JSONDecodeError of undecodable text is handled
\* in place by the handlers of lines 625 and 635
llm_fallback_exception(llm) ==
    CASE llm.kind = "raise" -> "Exception"
      [] llm.kind = "list" -> "AttributeError"
      [] OTHER -> "none"

\* a handler that takes decoding errors only
risk_handler_catches_decode_only(exc) == exc = "JSONDecodeError"

\* line 639, except Exception: the handler around the whole body
risk_handler_catches(exc) == exc \in {"Exception", "AttributeError", "JSONDecodeError"}

\* an exception of the fallback leaves the function when line 639 does not
\* catch it
llm_risk_raises(llm) ==
    /\ llm_fallback_exception(llm) # "none"
    /\ ~risk_handler_catches(llm_fallback_exception(llm))

\* the fallback asked for as soon as one flag is unset
needs_llm_either(ra) == ra.regulatory_risks = FalseV \/ ra.trend_risks = FalseV

\* line 603: the fallback is asked for when the keyword pass set neither flag
needs_llm(ra) == ra.regulatory_risks = FalseV /\ ra.trend_risks = FalseV

\* OrchestratorAgent._process_news_for_risks: the assessment, the number of
\* calls of self.llm.invoke, and whether an exception leaves the function.  A
\* "str" bundle is JSON text: nd.decodes says whether json.loads accepts it
_process_news_for_risks(nd, llm) ==
    IF nd.st = "other" \/ (nd.st = "str" /\ ~nd.decodes)
    THEN [ra |-> DefaultRisk, llm_calls |-> 0, raised |-> FALSE]
    ELSE
      LET ra1 == IF nd.summary # <<>>
                 THEN [DefaultRisk EXCEPT !.recent_news_summary = StrVal(nd.summary)]
                 ELSE DefaultRisk
          ra2 == IF keyword_hit(regulatory_lowered, nd)
                 THEN [ra1 EXCEPT !.regulatory_risks = TrueV] ELSE ra1
          ra3 == IF keyword_hit(trend_risk_lowered, nd)
                 THEN [ra2 EXCEPT !.trend_risks = TrueV] ELSE ra2
          ra4 == [ra3 EXCEPT !.news_sentiment = sentiment_of(nd.tone)]
      IN  IF needs_llm(ra4)
          THEN [ra |-> llm_risk_flags(ra4, llm), llm_calls |-> 1,
                raised |-> llm_risk_raises(llm)]
          ELSE [ra |-> ra4, llm_calls |-> 0, raised |-> FALSE]

-----------------------------------------------------------------------------
(* OrchestratorAgent: LinkedIn and SEC data                                *)

\* the founder metrics every call starts from (lines 653-660), on the two
\* founder keys the model follows
DefaultFounder == [founder_background |-> Null, founder_linkedin_summary |-> Null]

\* OrchestratorAgent._extract_founder_linkedin_data for a dict bundle (also the
\* empty dict and {"error": ...}): the summary is copied when truthy, then the
\* LLM is asked; result.get gives None for a key the reply leaves out
_extract_founder_linkedin_data(ld, llm) ==
    LET fm1 == IF Truthy(ld.summary)
               THEN [DefaultFounder EXCEPT !.founder_linkedin_summary = ld.summary]
               ELSE DefaultFounder
    IN  IF llm.kind \in {"json", "fenced"}
        THEN [fm1 EXCEPT !.founder_background = llm.founder_background]
        ELSE fm1

\* the conversion of lines 471-484; float() of a text with two dots raises
\* ValueError and the original value is stored
convert_financial_value(text) ==
    LET clean == SelectSeq(text, LAMBDA c : IsDigit(c) \/ c = ".")
        dots == Len(SelectSeq(clean, LAMBDA c : c = "."))
    IN  IF clean = <<>> THEN StrVal(text)
        ELSE IF dots = 0 THEN IntVal(DigitsToInt(clean, 0))
        ELSE IF dots = 1 /\ Len(clean) > 1 THEN "float:" \o Join(clean)
        ELSE StrVal(text)

\* current_year - 2 of line 505
FoundingYearLimit == 2023

\* lines 499-508: int(fiscal_year), kept when it is before current_year - 2
fiscal_year_to_founding(text) ==
    IF text # <<>> /\ \A i \in 1..Len(text) : IsDigit(text[i])
    THEN IF DigitsToInt(text, 0) < FoundingYearLimit
         THEN IntVal(DigitsToInt(text, 0)) ELSE Absent
    ELSE Absent

\* a dict is truthy when it has a key
mc_truthy(mc) ==
    mc.st = "map" /\ (mc.ci.st = "map" \/ \E k \in MCFields : mc.f[k] # Absent)

ci_truthy(ci) == ci.st = "map" /\ \E k \in CIFields : ci.f[k] # Absent

\* the fill with the SEC value taking the place of what is there
fill_metrics_overwriting(mc, fd) ==
    IF fd.revenue # <<>>
    THEN [mc EXCEPT !.f["annual_recurring_revenue"] = convert_financial_value(fd.revenue)]
    ELSE mc

\* lines 466-484, for the one mapping the model follows:
\* revenue -> annual_recurring_revenue
fill_metrics_from_financial(mc, fd) ==
    IF fd.revenue # <<>> /\ ~Truthy(mc.f["annual_recurring_revenue"])
    THEN [mc EXCEPT !.f["annual_recurring_revenue"] = convert_financial_value(fd.revenue)]
    ELSE mc

\* lines 486-512: company_info is created when missing and filled key by key
\* when the key is not in it
fill_company_info_from_financial(mc, fd) ==
    LET ci0 == IF mc.ci.st = "absent" THEN EmptyCI ELSE mc.ci
        name == IF Truthy(fd.company_name) /\ ci0.f["company_name"] = Absent
                THEN fd.company_name ELSE ci0.f["company_name"]
        industry == IF Truthy(fd.sic_description) /\ ci0.f["industry"] = Absent
                    THEN fd.sic_description ELSE ci0.f["industry"]
        year == IF fd.fiscal_year # <<>> /\ ci0.f["year_of_founding"] = Absent
                THEN fiscal_year_to_founding(fd.fiscal_year)
                ELSE ci0.f["year_of_founding"]
        summary == IF Truthy(fd.financial_summary) /\ ci0.f["pitch_deck_summary"] = Absent
                   THEN fd.financial_summary ELSE ci0.f["financial_summary"]
    IN  [mc EXCEPT !.ci = [st |-> "map",
                           f |-> [ci0.f EXCEPT !["company_name"] = name,
                                               !["industry"] = industry,
                                               !["year_of_founding"] = year,
                                               !["financial_summary"] = summary]]]

\* OrchestratorAgent._fill_missing_financial_metrics(main_category, financial_data)
_fill_missing_financial_metrics(mc, fd) ==
    IF fd.st = "empty" \/ ~mc_truthy(mc) THEN mc
    ELSE fill_company_info_from_financial(fill_metrics_from_financial(mc, fd), fd)

-----------------------------------------------------------------------------
(* OrchestratorAgent: company name, LinkedIn profile, integration          *)

\* a results dict: main_category, metrics and the set of its other keys
NoResults == [mc |-> NoMC, metrics |-> NoMC, keys |-> {}]

\* OrchestratorAgent._extract_company_name(results)
_extract_company_name(r) ==
    IF mc_truthy(r.mc) /\ ci_truthy(r.mc.ci) /\ Truthy(r.mc.ci.f["company_name"])
    THEN r.mc.ci.f["company_name"]
    ELSE IF mc_truthy(r.metrics) /\ r.metrics.f["company_name"] # Absent
         THEN r.metrics.f["company_name"]
    ELSE Null

\* OrchestratorAgent._extract_linkedin_profile(results)
_extract_linkedin_profile(r) ==
    IF mc_truthy(r.mc) /\ ci_truthy(r.mc.ci) /\ Truthy(r.mc.ci.f["linkedin_profile_ceo"])
    THEN r.mc.ci.f["linkedin_profile_ceo"]
    ELSE Null

\* the write with a founder metric going only where the target has none
write_keeping_founder(d, fm, ra) ==
    [d EXCEPT !.f = [k \in MCFields |->
        CASE k = "founder_background" ->
                IF NonNull(d.f[k]) THEN d.f[k]
                ELSE IF fm.founder_background # Null THEN fm.founder_background
                ELSE d.f[k]
          [] k = "founder_linkedin_summary" ->
                IF fm.founder_linkedin_summary # Null
                THEN fm.founder_linkedin_summary ELSE d.f[k]
          [] k = "regulatory_risks" -> ra.regulatory_risks
          [] k = "trend_risks" -> ra.trend_risks
          [] k = "news_sentiment" -> ra.news_sentiment
          [] k = "recent_news_summary" -> ra.recent_news_summary
          [] OTHER -> d.f[k]]]

\* a write that replaces the target by the founder and risk values
write_replacing(d, fm, ra) ==
    [d EXCEPT !.f = [k \in MCFields |->
        CASE k = "founder_background" -> fm.founder_background
          [] k = "founder_linkedin_summary" -> fm.founder_linkedin_summary
          [] k = "regulatory_risks" -> ra.regulatory_risks
          [] k = "trend_risks" -> ra.trend_risks
          [] k = "news_sentiment" -> ra.news_sentiment
          [] k = "recent_news_summary" -> ra.recent_news_summary
          [] OTHER -> Absent]]

\* lines 362-368 and 373-379 on one target dict: a founder metric is written
\* when it is not None, a risk field always
write_founder_and_risk(d, fm, ra) ==
    [d EXCEPT !.f = [k \in MCFields |->
        CASE k = "founder_background" ->
                IF fm.founder_background # Null THEN fm.founder_background ELSE d.f[k]
          [] k = "founder_linkedin_summary" ->
                IF fm.founder_linkedin_summary # Null
                THEN fm.founder_linkedin_summary ELSE d.f[k]
          [] k = "regulatory_risks" -> ra.regulatory_risks
          [] k = "trend_risks" -> ra.trend_risks
          [] k = "news_sentiment" -> ra.news_sentiment
          [] k = "recent_news_summary" -> ra.recent_news_summary
          [] OTHER -> d.f[k]]]

\* OrchestratorAgent._integrate_results(web_results, linkedin_data, news_data):
\* raised is the TypeError of an item assignment on a main_category or metrics
\* that is None; web_after is web_results after the call, whose main_category
\* and metrics dicts the shallow copy shares with the result
_integrate_results(web, ld, nd, fllm, rllm) ==
    LET fm == _extract_founder_linkedin_data(ld, fllm)
        risk == _process_news_for_risks(nd, rllm)
        k1 == IF ld.st # "empty" THEN web.keys \cup {"linkedin_data"} ELSE web.keys
        k2 == IF nd.st # "empty" THEN k1 \cup {"news_data"} ELSE k1
        raised == risk.raised \/ web.mc.st = "null" \/ web.metrics.st = "null"
        mc2 == IF web.mc.st = "map" THEN write_founder_and_risk(web.mc, fm, risk.ra)
               ELSE web.mc
        mt2 == IF web.metrics.st = "map" /\ web.mc.st # "null"
               THEN write_founder_and_risk(web.metrics, fm, risk.ra)
               ELSE web.metrics
    IN  [raised |-> raised,
         founder_background |-> fm.founder_background,
         risk |-> risk,
         consolidated |-> [mc |-> mc2, metrics |-> mt2,
                           keys |-> k2 \cup {"analysis", "source"}],
         web_after |-> [web EXCEPT !.mc = mc2, !.metrics = mt2],
         llm_calls |-> risk.llm_calls]

-----------------------------------------------------------------------------
(* ModularExtractor._merge_data                                            *)

\* a merge that takes the web value whenever there is one
merge_level_preferring_web(pdf_f, web_f, S) ==
    [k \in S |-> IF web_f[k] # Absent THEN web_f[k] ELSE pdf_f[k]]

\* one level of _merge_data: a web key is taken when the PDF dict lacks the
\* key or holds None for it
merge_level(pdf_f, web_f, S) ==
    [k \in S |-> IF web_f[k] # Absent /\ pdf_f[k] \in {Absent, Null}
                 THEN web_f[k] ELSE pdf_f[k]]

\* ModularExtractor._merge_data(pdf_data, web_data), with company_info as the
\* nested dict that is merged recursively
_merge_data(pdf, web) ==
    [st |-> "map",
     f |-> merge_level(pdf.f, web.f, MCFields),
     ci |-> IF web.ci.st = "absent" THEN pdf.ci
            ELSE IF pdf.ci.st = "absent" THEN web.ci
            ELSE [st |-> "map", f |-> merge_level(pdf.ci.f, web.ci.f, CIFields)]]

\* line 392, merged = pdf_data.copy(): every later assignment goes to the copy,
\* so pdf_data is after the call what it was before
pdf_after_merge(pdf, merged) == pdf

-----------------------------------------------------------------------------
(* Numeric coercion: SimplePDFExtractor and WebSearchAgent                 *)

DigitSet == {Digits[i] : i \in 1..10}

\* the index of the first digit of a text, 0 when it has none
first_digit(s) ==
    IF \E i \in 1..Len(s) : IsDigit(s[i])
    THEN CHOOSE i \in 1..Len(s) : IsDigit(s[i]) /\ \A j \in 1..(i - 1) : ~IsDigit(s[j])
    ELSE 0

\* the first index from i on whose character is not in chars
RECURSIVE run_end(_, _, _)
run_end(s, i, chars) ==
    IF i > Len(s) \/ s[i] \notin chars THEN i ELSE run_end(s, i + 1, chars)

\* str.replace(c, '')
without(s, c) == SelectSeq(s, LAMBDA x : x # c)

\* simple_pdf_extractor.py 298: group 1 of the leftmost match of
\* [$...]?\s*?(\d[\d,]*\.?\d*|\d+), for a text that has a digit: from the first
\* digit, digits and commas, then an optional dot and digits
number_match(s) ==
    LET i0 == first_digit(s)
        j == run_end(s, i0 + 1, DigitSet \cup {","})
        k == IF j <= Len(s) /\ s[j] = "." THEN run_end(s, j + 1, DigitSet) ELSE j
    IN  SubSeq(s, i0, k - 1)

\* int(float(text)) for digits with at most one dot: the digits before the dot
int_of_float(text) ==
    DigitsToInt(SubSeq(text, 1, run_end(text, 1, DigitSet) - 1), 0)

\* simple_pdf_extractor.py 309
multipliers == [k |-> 1000, m |-> 1000000, b |-> 1000000000]

Infinity == {<<"i", "n", "f">>, <<"i", "n", "f", "i", "n", "i", "t", "y">>}

\* SimplePDFExtractor._safe_int_convert on a str.  With a digit in the text the
\* regex matches and int(float(cleaned)) succeeds, so line 306 returns.  Without
\* one float(cleaned) raises ValueError and lines 309-316 look at the suffix:
\* float(value[:-1]) of a text without digits is a ValueError, or inf, whose
\* int() is an OverflowError that no handler takes, or nan (ValueError)
_safe_int_convert(value) ==
    IF first_digit(value) # 0
    THEN IntVal(int_of_float(without(number_match(value), ",")))
    ELSE IF Len(value) > 1 /\ LowerChar(value[Len(value)]) \in DOMAIN multipliers
              /\ Lower(SubSeq(value, 1, Len(value) - 1)) \in Infinity
         THEN "RAISE"
         ELSE Null

\* WebSearchAgent._extract_numeric_value on a str: the first run of digits of
\* the text without its commas
_extract_numeric_value(value_str) ==
    LET clean_str == without(value_str, ",")
        i0 == first_digit(clean_str)
    IN  IF i0 = 0 THEN Null
        ELSE IntVal(DigitsToInt(SubSeq(clean_str, i0,
                                       run_end(clean_str, i0, DigitSet) - 1), 0))

\* the texts the coercions are applied to
CoerceInputs ==
    {<<"$", "1", ",", "2", "0", "0", "k">>,
     <<"a", "b", "c">>,
     <<"1", "5", ".", "7">>,
     <<"1", "K">>,
     <<"2", "m">>,
     <<"1", "b">>,
     <<"1", "2">>,
     <<>>,
     <<"3", ".">>,
     <<"i", "n", "f", "k">>,
     <<"n", "a", "n", "m">>,
     <<"1", ",", "5">>,
     <<"a", "1", "b", "2">>,
     <<"$", " ", "7">>,
     <<"1", ".", "2", ".", "3">>,
     <<".">>,
     <<"k">>,
     <<"1", "5", ".", "2">>,
     <<"0", ".", "5">>,
     <<"A", "R", "R", " ", "4", "0", " ", "(", "e", "s", "t", ".", ")">>}

-----------------------------------------------------------------------------
(* What the collaborators may hand back                                    *)

\* the PDF agent's bundle in the nested format: company_info inside
\* main_category, no metrics
NestedBundle(arr, fb, profile) ==
    [mc |-> [st |-> "map",
             f |-> [EmptyF(MCFields) EXCEPT !["annual_recurring_revenue"] = arr,
                                            !["founder_background"] = fb],
             ci |-> [st |-> "map",
                     f |-> [EmptyF(CIFields) EXCEPT !["company_name"] = "str:Acme",
                                                    !["industry"] = EmptyStr,
                                                    !["linkedin_profile_ceo"] = profile]]],
     metrics |-> NoMC,
     keys |-> {"search_category"}]

\* a StartupMetrics dump: every field is a key, None unless set
MetricsDump(name, arr) ==
    [st |-> "map",
     f |-> [[k \in MCFields |-> Null] EXCEPT !["company_name"] = name,
                                            !["annual_recurring_revenue"] = arr],
     ci |-> NoCI]

\* PDFAgentExecutor.extract_from_pdf_text (pdf_agent.py 593-597): the same
\* dump under metrics and main_category
FlatBundle(name, arr) ==
    [mc |-> MetricsDump(name, arr), metrics |-> MetricsDump(name, arr),
     keys |-> {"search_category"}]

\* the "new format" of line 370: metrics without main_category
MetricsOnlyBundle(fb) ==
    [mc |-> NoMC,
     metrics |-> [MetricsDump("str:Acme", Null) EXCEPT !.f["founder_background"] = fb],
     keys |-> {}]

\* a bundle whose main_category is None
NullMainBundle ==
    [mc |-> NullMC, metrics |-> MetricsDump("str:Acme", Null),
     keys |-> {"search_category"}]

PdfBundles ==
    {NestedBundle(arr, fb, profile) :
        arr \in {Null, Zero, "int:10"}, fb \in {Null, "int:3"},
        profile \in {Absent, "str:li"}}
    \cup {FlatBundle(name, arr) : name \in {"str:Acme", Null}, arr \in {Null, Zero, "int:10"}}
    \cup {MetricsOnlyBundle(fb) : fb \in {Null, "int:3"}}
    \cup {NullMainBundle}

\* what the web searches and the reviewing LLM return
WebReplies ==
    {[company_data |-> [EmptyF(CIFields) EXCEPT !["industry"] = ind],
      financial_data |-> [EmptyF(MCFields) EXCEPT !["annual_recurring_revenue"] = arr],
      ceo_linkedin |-> Absent,
      reply |-> reply] :
        ind \in {Absent}, arr \in {Absent, "int:20"}, reply \in LlmReplies}
    \cup
    {[company_data |-> [EmptyF(CIFields) EXCEPT !["industry"] = "str:webind"],
      financial_data |-> [EmptyF(MCFields) EXCEPT !["annual_recurring_revenue"] = "int:20"],
      ceo_linkedin |-> Absent,
      reply |-> "nojson"]}

\* financial_data as extract holds it
NoFinancial ==
    [st |-> "empty", revenue |-> <<>>, company_name |-> Absent,
     sic_description |-> Absent, fiscal_year |-> <<>>, financial_summary |-> Absent]

ErrorFinancial == [NoFinancial EXCEPT !.st = "error"]

\* FinancialAgent.process_parsed_data, lines 174-195: the model returned when
\* the processing raised
FailedFinancialModel ==
    [st |-> "model", revenue |-> <<>>, company_name |-> "str:Error",
     sic_description |-> EmptyStr, fiscal_year |-> <<>>,
     financial_summary |-> "str:Error processing financial data"]

\* FinancialAgent.process_parsed_data, lines 141-168: the model built from the
\* LLM's JSON
FinancialModel(revenue) ==
    [st |-> "model", revenue |-> revenue, company_name |-> "str:Acme Inc",
     sic_description |-> "str:software", fiscal_year |-> <<"2", "0", "1", "9">>,
     financial_summary |-> "str:summary"]

RevenueTexts == {<<"$", "1", ",", "5", "0", "0">>, <<"a", "b", "c">>, <<"1", "5", ".", "7">>}

\* FinancialAgent._run: an exception, None, the CIK error dict, the failure
\* model, or a model
FinancialOutcomes ==
    {[kind |-> "raise", data |-> NoFinancial],
     [kind |-> "none", data |-> NoFinancial],
     [kind |-> "nocik", data |-> ErrorFinancial],
     [kind |-> "procfail", data |-> FailedFinancialModel]}
    \cup {[kind |-> "ok", data |-> FinancialModel(r)] : r \in RevenueTexts}

\* linkedin_data as extract holds it
NoLinkedin == [st |-> "empty", summary |-> Absent]
ErrorLinkedin == [st |-> "error", summary |-> Absent]

\* LinkedInAgent._run: an exception (or the error text that json.loads rejects),
\* or the profile
LinkedinOutcomes ==
    {[kind |-> "raise", data |-> ErrorLinkedin],
     [kind |-> "ok", data |-> [st |-> "map", summary |-> "str:profile"]]}

\* the replies of the LLM in _extract_founder_linkedin_data
FounderLlmReplies ==
    {[kind |-> "raise", founder_background |-> Null],
     [kind |-> "json", founder_background |-> "int:4"]}

\* news_data as extract holds it
NoNews ==
    [st |-> "empty", decodes |-> FALSE, title |-> <<>>, description |-> <<>>,
     summary |-> <<>>, tone |-> <<>>, keywords |-> <<>>]

ErrorNews == [NoNews EXCEPT !.st = "error"]

\* NewsAgent.process_parsed_data, lines 95-105: a NewsModel
NewsModel(title, tone, keywords) ==
    [st |-> "model", decodes |-> FALSE, title |-> title, description |-> <<>>,
     summary |-> <<"n", "e", "w", "s">>, tone |-> tone, keywords |-> keywords]

NewsModels ==
    {NewsModel(<<"A", "c", "m", "e", " ", "w", "i", "n", "s">>, <<"P", "o", "s", "i", "t", "i", "v", "e">>, <<>>),
     NewsModel(<<"S", "E", "C", " ", "I", "n", "v", "e", "s", "t", "i", "g", "a", "t", "i", "o", "n">>, <<"n", "e", "g", "a", "t", "i", "v", "e">>, <<>>),
     NewsModel(<<"A", "c", "m", "e", " ", "n", "e", "w", "s">>, <<"n", "e", "g", "a", "t", "i", "v", "e", ",", " ", "n", "o", "t", " ", "p", "o", "s", "i", "t", "i", "v", "e">>, <<<<"L", "a", "w", "s", "u", "i", "t">>>>),
     NewsModel(<<"A", "c", "m", "e">>, <<"m", "i", "x", "e", "d">>, <<<<"d", "i", "s", "r", "u", "p", "t">>>>)}

\* NewsAgent._run: a connection error, another exception, or a NewsModel
NewsOutcomes ==
    {[kind |-> "connection_error", data |-> ErrorNews],
     [kind |-> "raise", data |-> ErrorNews]}
    \cup {[kind |-> "ok", data |-> m] : m \in NewsModels}

\* the replies of the LLM fallback in _process_news_for_risks
RiskLlmReplies ==
    {[kind |-> "raise", regulatory |-> FALSE, trend |-> FALSE],
     [kind |-> "garbage", regulatory |-> FALSE, trend |-> FALSE],
     [kind |-> "list", regulatory |-> FALSE, trend |-> FALSE],
     [kind |-> "json", regulatory |-> TRUE, trend |-> FALSE]}

-----------------------------------------------------------------------------
(* JSON text: json.dumps and json.loads on the payloads of the agents       *)

Quote == "\""
Backslash == "\\"

\* the keys of a payload the two functions read
TitleKey == <<"t", "i", "t", "l", "e">>
DescriptionKey == <<"d", "e", "s", "c", "r", "i", "p", "t", "i", "o", "n">>
SummaryKey == <<"s", "u", "m", "m", "a", "r", "y">>
ToneKey == <<"t", "o", "n", "e">>
KeywordsKey == <<"k", "e", "y", "w", "o", "r", "d", "s">>

\* a mapping without any of the keys: every .get gives its default
EmptyObject ==
    [title |-> <<>>, description |-> <<>>, summary |-> <<>>, tone |-> <<>>,
     keywords |-> <<>>]

\* json.dumps of a str: quotes and backslashes are escaped
RECURSIVE escape(_)
escape(chars) ==
    IF chars = <<>> THEN <<>>
    ELSE (IF Head(chars) \in {Quote, Backslash}
          THEN <<Backslash, Head(chars)>> ELSE <<Head(chars)>>)
         \o escape(Tail(chars))

dumps_str(chars) == <<Quote>> \o escape(chars) \o <<Quote>>

RECURSIVE dumps_items(_)
dumps_items(items) ==
    IF items = <<>> THEN <<>>
    ELSE dumps_str(Head(items))
         \o (IF Len(items) > 1 THEN <<",", " ">> ELSE <<>>)
         \o dumps_items(Tail(items))

\* json.dumps of a list of str
dumps_list(items) == <<"[">> \o dumps_items(items) \o <<"]">>

\* "key": value
dumps_member(key, value) == dumps_str(key) \o <<":", " ">> \o value

RECURSIVE dumps_members(_)
dumps_members(members) ==
    IF members = <<>> THEN <<>>
    ELSE Head(members)
         \o (IF Len(members) > 1 THEN <<",", " ">> ELSE <<>>)
         \o dumps_members(Tail(members))

\* json.dumps of a mapping, with the default separators; the mapping has the
\* keys whose value is not empty
json_dumps(m) ==
    <<"{">>
    \o dumps_members(
         (IF m.title # <<>> THEN <<dumps_member(TitleKey, dumps_str(m.title))>> ELSE <<>>)
         \o (IF m.description # <<>>
             THEN <<dumps_member(DescriptionKey, dumps_str(m.description))>> ELSE <<>>)
         \o (IF m.summary # <<>>
             THEN <<dumps_member(SummaryKey, dumps_str(m.summary))>> ELSE <<>>)
         \o (IF m.tone # <<>> THEN <<dumps_member(ToneKey, dumps_str(m.tone))>> ELSE <<>>)
         \o (IF m.keywords # <<>>
             THEN <<dumps_member(KeywordsKey, dumps_list(m.keywords))>> ELSE <<>>))
    \o <<"}">>

\* the decoder: blanks between tokens are skipped
RECURSIVE skip(_, _)
skip(s, i) == IF i <= Len(s) /\ s[i] = " " THEN skip(s, i + 1) ELSE i

\* the closing quote of the string whose content starts at i, 0 when the text
\* ends before it
RECURSIVE string_close(_, _)
string_close(s, i) ==
    IF i > Len(s) THEN 0
    ELSE IF s[i] = Quote THEN i
    ELSE IF s[i] = Backslash THEN string_close(s, i + 2)
    ELSE string_close(s, i + 1)

RECURSIVE unescape(_)
unescape(chars) ==
    IF chars = <<>> THEN <<>>
    ELSE IF Head(chars) = Backslash /\ Len(chars) > 1
    THEN <<chars[2]>> \o unescape(SubSeq(chars, 3, Len(chars)))
    ELSE <<Head(chars)>> \o unescape(Tail(chars))

JsonFail == [ok |-> FALSE, kind |-> "fail", str |-> <<>>, items |-> <<>>,
             obj |-> EmptyObject, next |-> 0]

\* a string literal at i
scan_string(s, i) ==
    IF i > Len(s) \/ s[i] # Quote THEN JsonFail
    ELSE LET j == string_close(s, i + 1)
         IN  IF j = 0 THEN JsonFail
             ELSE [JsonFail EXCEPT !.ok = TRUE, !.kind = "string",
                                   !.str = unescape(SubSeq(s, i + 1, j - 1)),
                                   !.next = j + 1]

\* the items of an array of strings, the first of them at i
RECURSIVE scan_items(_, _, _)
scan_items(s, i, acc) ==
    LET item == scan_string(s, skip(s, i))
        j == skip(s, item.next)
    IN  IF ~item.ok \/ j > Len(s) THEN JsonFail
        ELSE IF s[j] = "]"
        THEN [JsonFail EXCEPT !.ok = TRUE, !.kind = "array",
                              !.items = Append(acc, item.str), !.next = j + 1]
        ELSE IF s[j] = "," THEN scan_items(s, j + 1, Append(acc, item.str))
        ELSE JsonFail

\* an array of strings whose "[" is at i
scan_array(s, i) ==
    LET j == skip(s, i + 1)
    IN  IF j > Len(s) THEN JsonFail
        ELSE IF s[j] = "]"
        THEN [JsonFail EXCEPT !.ok = TRUE, !.kind = "array", !.next = j + 1]
        ELSE scan_items(s, j, <<>>)

\* a string or an array at i
scan_scalar(s, i) ==
    IF i > Len(s) THEN JsonFail
    ELSE IF s[i] = Quote THEN scan_string(s, i)
    ELSE IF s[i] = "[" THEN scan_array(s, i)
    ELSE JsonFail

\* the mapping with one more member; a key the functions do not read is dropped
with_member(obj, key, value) ==
    CASE key = TitleKey /\ value.kind = "string" -> [obj EXCEPT !.title = value.str]
      [] key = DescriptionKey /\ value.kind = "string" -> [obj EXCEPT !.description = value.str]
      [] key = SummaryKey /\ value.kind = "string" -> [obj EXCEPT !.summary = value.str]
      [] key = ToneKey /\ value.kind = "string" -> [obj EXCEPT !.tone = value.str]
      [] key = KeywordsKey /\ value.kind = "array" -> [obj EXCEPT !.keywords = value.items]
      [] OTHER -> obj

\* the members of an object, the first of them at i
RECURSIVE scan_members(_, _, _)
scan_members(s, i, obj) ==
    LET key == scan_string(s, skip(s, i))
        c == skip(s, key.next)
    IN  IF ~key.ok \/ c > Len(s) \/ s[c] # ":" THEN JsonFail
        ELSE LET value == scan_scalar(s, skip(s, c + 1))
                 j == skip(s, value.next)
             IN  IF ~value.ok \/ j > Len(s) THEN JsonFail
                 ELSE IF s[j] = "}"
                 THEN [JsonFail EXCEPT !.ok = TRUE, !.kind = "object",
                                       !.obj = with_member(obj, key.str, value),
                                       !.next = j + 1]
                 ELSE IF s[j] = ","
                 THEN scan_members(s, j + 1, with_member(obj, key.str, value))
                 ELSE JsonFail

\* an object whose "{" is at i
scan_object(s, i) ==
    LET j == skip(s, i + 1)
    IN  IF j > Len(s) THEN JsonFail
        ELSE IF s[j] = "}"
        THEN [JsonFail EXCEPT !.ok = TRUE, !.kind = "object", !.next = j + 1]
        ELSE scan_members(s, j, EmptyObject)

\* json.loads(text): one document and nothing after it, else JSONDecodeError
json_loads(text) ==
    LET i == skip(text, 1)
        v == IF i > Len(text) THEN JsonFail
             ELSE IF text[i] = "{" THEN scan_object(text, i)
             ELSE scan_scalar(text, i)
    IN  IF v.ok /\ skip(text, v.next) = Len(text) + 1 THEN v ELSE JsonFail

\* a decoder that decodes the result again when it is a string
decode_repeatedly(text) ==
    LET v == json_loads(text)
    IN  IF v.kind = "string"
        THEN [value |-> json_loads(v.str), loads |-> 2]
        ELSE [value |-> v, loads |-> 1]

\* lines 534-539 and 662-667: the one json.loads of a str payload
decode_payload(text) == [value |-> json_loads(text), loads |-> 1]

\* news_data after lines 534-539, for a str payload
news_of_text(text) ==
    LET v == decode_payload(text).value
    IN  CASE v.kind = "object" ->
                [st |-> "str", decodes |-> TRUE, title |-> v.obj.title,
                 description |-> v.obj.description, summary |-> v.obj.summary,
                 tone |-> v.obj.tone, keywords |-> v.obj.keywords]
          [] v.kind = "fail" -> [NoNews EXCEPT !.st = "str"]
          [] OTHER -> [NoNews EXCEPT !.st = "other"]

\* the dict a mapping payload is for _process_news_for_risks
news_of_mapping(m) ==
    [st |-> "map", decodes |-> FALSE, title |-> m.title,
     description |-> m.description, summary |-> m.summary, tone |-> m.tone,
     keywords |-> m.keywords]

\* the dict a mapping payload is for _extract_founder_linkedin_data
linkedin_of_mapping(m) == [st |-> "map", summary |-> StrVal(m.summary)]

\* _extract_founder_linkedin_data on a dict, with its one call of the LLM
founder_of_mapping(m, llm) ==
    [fm |-> _extract_founder_linkedin_data(linkedin_of_mapping(m), llm),
     llm_calls |-> 1, raised |-> FALSE]

\* _extract_founder_linkedin_data on a str payload: lines 662-673 return the
\* defaults for a text json.loads rejects and for a document that is no dict
founder_of_text(text, llm) ==
    LET v == decode_payload(text).value
    IN  IF v.kind = "object" THEN founder_of_mapping(v.obj, llm)
        ELSE [fm |-> DefaultFounder, llm_calls |-> 0, raised |-> FALSE]

\* the payloads handed to the two functions
Mappings ==
    {[EmptyObject EXCEPT !.title = <<"S", "E", "C">>,
                         !.tone = <<"b", "a", "d">>],
     [EmptyObject EXCEPT !.title = <<Quote, "A", Quote>>,
                         !.tone = <<"P", "o", "s", "i", "t", "i", "v", "e">>],
     [EmptyObject EXCEPT !.summary = <<"a", Backslash, "b">>,
                         !.keywords = <<<<"d", "i", "s", "r", "u", "p", "t">>, <<"A", "I">>>>],
     EmptyObject}

\* a str payload: the JSON text of a mapping, a text json.loads rejects, the
\* JSON text of a JSON text, or the JSON text of a list
Payloads ==
    {[kind |-> "dict", mapping |-> m, text |-> json_dumps(m)] : m \in Mappings}
    \cup {[kind |-> "undecodable", mapping |-> m,
           text |-> SubSeq(json_dumps(m), 1, Len(json_dumps(m)) - 1)] : m \in Mappings}
    \cup {[kind |-> "undecodable", mapping |-> EmptyObject, text |-> t] :
            t \in {<<>>, <<"n", "o", " ", "n", "e", "w", "s">>,
                   <<"{", "}", "}">>, <<"{", Quote, "a", Quote, "}">>}}
    \cup {[kind |-> "twice", mapping |-> m, text |-> dumps_str(json_dumps(m))] :
            m \in Mappings}
    \cup {[kind |-> "list", mapping |-> m, text |-> dumps_list(m.keywords)] :
            m \in Mappings}

-----------------------------------------------------------------------------
(* OrchestratorAgent.extract as a state machine                            *)

VARIABLES
    pc,               \* the step extract (or the merge) is at
    pdf_results,      \* the dicts of extract, lines 63-68
    web_results,      \* web_enhanced_results
    financial_data,
    linkedin_data,
    news_data,
    error_details,    \* the keys of error_details
    alias,            \* what web_enhanced_results shares with pdf_results:
                      \* "top" (the same dict), "ci" (the company_info dict), "none"
    company_name,     \* the local of line 119
    seen,             \* what the collaborators returned: pdf, web, financial, founder_llm
    calls,            \* the collaborators and steps that were invoked
    llm_calls,        \* calls of self.llm.invoke in _process_news_for_risks
    ret,              \* what extract returned or raised
    file_closed,      \* file.file.close() ran
    merge,            \* the arguments and the result of _merge_data
    coerce,           \* a text and what the numeric coercions made of it
    decode,           \* a str payload and what the two functions made of it
    upload,           \* /upload-pdf/: the upload stream, the file on disk, the extraction
    enrich,           \* the arguments and the result of enrich_startup_metrics_from_web
    response,         \* the JSONResponse of /orchestrate/
    poll,             \* one OpenAI assistants call: the run, the loop, what was created
    race              \* two requests that save and read uploads/<the same filename>

vars == <<pc, pdf_results, web_results, financial_data, linkedin_data, news_data,
          error_details, alias, company_name, seen, calls, llm_calls, ret,
          file_closed, merge, coerce, decode, upload, enrich, response, poll, race>>

\* the StartupMetrics fields the model follows (models/model.py 4-87)
SMFields == MCFields \cup {"linkedin_profile_ceo", "pitch_deck_summary"}

\* StartupMetrics(): every field None
DefaultMetrics == [k \in SMFields |-> Null]

NoResponse == [status |-> "none", has_metrics |-> FALSE, startup_metrics |-> DefaultMetrics]

\* the bytes of an uploaded file; a PDF starts with "%"
Uploads ==
    {<<>>, <<"%">>, <<"%", "A">>, <<"%", "A", "c", "m", "e">>, <<"x", "y">>}

\* file.file before anything read it, and an upload folder without the file
NoUpload ==
    [stream |-> <<>>, pos |-> 0, disk |-> <<>>, disk_at_extract |-> <<>>,
     text |-> <<>>, keys |-> {}]

\* the keys the web searches may return: two fields of StartupMetrics and one
\* key that is no field
EnrichKeys == {"industry", "company_name", "ticker"}

\* a search result without keys
NoData == [k \in EnrichKeys |-> Absent]

\* search_company_info, search_financial_data, search_category_to_search_data:
\* the dicts they may return for the company
CompanyData ==
    {[NoData EXCEPT !["industry"] = v, !["ticker"] = t] :
        v \in {Absent, Null, EmptyStr, "str:from company info"}, t \in {Absent, "str:ACME"}}
FinancialData ==
    {[NoData EXCEPT !["industry"] = v, !["company_name"] = n] :
        v \in {Absent, Null, EmptyStr, "str:from financial data"},
        n \in {Absent, "str:Other Inc"}}
AdvancedData ==
    {[NoData EXCEPT !["industry"] = v] :
        v \in {Absent, Null, EmptyStr, "str:from advanced metrics"}}

\* existing_metrics_model, or the StartupMetrics(company_name=...) of line 247
ExistingMetrics ==
    {[DefaultMetrics EXCEPT !["company_name"] = "str:Acme", !["industry"] = v] :
        v \in {Null, EmptyStr, "str:from pdf"}}

NoEnrich ==
    [before |-> DefaultMetrics, company |-> NoData, financial |-> NoData,
     advanced |-> NoData, raises |-> "none", after |-> DefaultMetrics]

NoDecode ==
    [kind |-> "none", mapping |-> EmptyObject, text |-> <<>>,
     rllm |-> [kind |-> "raise", regulatory |-> FALSE, trend |-> FALSE],
     fllm |-> [kind |-> "raise", founder_background |-> Null], loads |-> 0,
     news |-> [ra |-> DefaultRisk, llm_calls |-> 0, raised |-> FALSE],
     founder |-> [fm |-> DefaultFounder, llm_calls |-> 0, raised |-> FALSE]]

NoCoerce == [text |-> <<>>, safe_int |-> Null, numeric |-> Null, filled |-> Absent]

NoRet == [kind |-> "none", path |-> "none", body |-> NoResults,
          has_error_details |-> FALSE, error_details |-> {}]

NoWeb == [company_data |-> EmptyF(CIFields), financial_data |-> EmptyF(MCFields),
          ceo_linkedin |-> Absent, reply |-> "nojson"]

NoSeen == [pdf |-> NoResults, web |-> NoWeb, fin_before |-> NoMC, fin_kind |-> "none",
           int_before |-> NoResults, founder_background |-> Null,
           risk_llm |-> "none",
           risk |-> [ra |-> DefaultRisk, llm_calls |-> 0, raised |-> FALSE]]

NoMerge == [pdf |-> EmptyMC, web |-> EmptyMC, merged |-> EmptyMC,
            pdf_after |-> EmptyMC, web_after |-> EmptyMC]

\* the inputs of _merge_data that the model follows
MergeInputs ==
    {[st |-> "map",
      f |-> [EmptyF(MCFields) EXCEPT !["annual_recurring_revenue"] = arr,
                                     !["industry"] = ind],
      ci |-> IF nested = Absent THEN NoCI
             ELSE [st |-> "map", f |-> [EmptyF(CIFields) EXCEPT !["website_link"] = nested]]] :
        arr \in {Absent, Null, Zero, "int:10", "int:20"},
        ind \in {Absent, EmptyStr, "str:saas"},
        nested \in {Absent, Null, "str:url"}}

\* the most polls of one run that the model counts; the loop itself counts none
MaxPolls == 3

\* the two functions that drive an assistants run
PollingFunctions == {"_analyze_pdf", "process_pdf_with_chatgpt"}

\* the statuses on which the loops stop: "completed" and the three they raise on
FinalStatuses == {"completed", "failed", "cancelled", "expired"}

\* the statuses a run can show; the loops compare against the four above only
RunStatuses == FinalStatuses \cup {"queued", "in_progress", "requires_action", "incomplete"}

\* before client.files.create: nothing created, no run, the loop not entered
NoPoll == [fn |-> "none", status |-> "none", last |-> "none", polls |-> 0,
           file |-> "none", assistant |-> "none", result |-> "none", left |-> "none"]

\* the two requests of the same filename
Requests == {1, 2}

\* how the application is served: one event loop, or several worker processes
Deployments == {"one_loop", "workers"}

NoRace == [mode |-> "none", disk |-> "none",
           req |-> [r \in Requests |-> [at |-> "idle", own |-> "none", text |-> "none"]]]

\* two requests arrive with the same filename, each with its own bytes
RaceStarts ==
    {[mode |-> m, disk |-> "none",
      req |-> [r \in Requests |->
                   [at |-> "start", own |-> IF r = 1 THEN "bytes_a" ELSE "bytes_b",
                    text |-> "none"]]] : m \in Deployments}


Init ==
    /\ pc \in {"save", "merge", "coerce", "decode", "upload", "enrich", "openai", "race"}
    /\ pdf_results = NoResults
    /\ web_results = NoResults
    /\ financial_data = NoFinancial
    /\ linkedin_data = NoLinkedin
    /\ news_data = NoNews
    /\ error_details = {}
    /\ alias = "none"
    /\ company_name = Null
    /\ seen = NoSeen
    /\ calls = {}
    /\ llm_calls = 0
    /\ ret = NoRet
    /\ file_closed = FALSE
    /\ merge = NoMerge
    /\ response = NoResponse
    /\ coerce = NoCoerce
    /\ decode = NoDecode
    /\ enrich = NoEnrich
    /\ poll = NoPoll
    /\ race \in IF pc = "race" THEN RaceStarts ELSE {NoRace}
    /\ upload \in IF pc = "upload"
                 THEN {[NoUpload EXCEPT !.stream = b] : b \in Uploads}
                 ELSE {NoUpload}

\* json.dumps raises TypeError on a NewsModel
serializable(nd) == nd.st # "model"

\* an outer handler whose response leaves error_details out
outer_except_without_details(ed, web, nd) ==
    [kind |-> "json", path |-> "error", body |-> web,
     has_error_details |-> FALSE, error_details |-> {}]

\* lines 214-232: the outer handler builds the error response around news_data;
\* the finally clause closes the file either way
outer_except(ed, web, nd) ==
    IF serializable(nd)
    THEN [kind |-> "json", path |-> "error", body |-> web,
          has_error_details |-> TRUE, error_details |-> ed]
    ELSE [kind |-> "raise", path |-> "error", body |-> NoResults,
          has_error_details |-> FALSE, error_details |-> {}]

\* pdf_results after a write to web_enhanced_results, through what they share
sync_pdf(pdf, web, al) ==
    CASE al = "top" -> web
      [] al = "ci" -> [pdf EXCEPT !.mc.ci = web.mc.ci]
      [] OTHER -> pdf

\* Step 1, lines 72-83
SaveFile ==
    /\ pc = "save"
    /\ UNCHANGED coerce
    /\ UNCHANGED decode
    /\ UNCHANGED upload
    /\ UNCHANGED enrich
    /\ UNCHANGED poll
    /\ UNCHANGED race
    /\ UNCHANGED response
    /\ \E ok \in BOOLEAN :
        IF ok
        THEN /\ pc' = "text"
             /\ UNCHANGED <<error_details, ret, file_closed>>
        ELSE /\ pc' = "done"
             /\ error_details' = {"file_save_error"}
             /\ ret' = outer_except({"file_save_error"}, web_results, news_data)
             /\ file_closed' = TRUE
    /\ UNCHANGED <<pdf_results, web_results, financial_data, linkedin_data, news_data,
                   alias, company_name, seen, calls, llm_calls, merge>>

\* Step 2, lines 86-91
ExtractText ==
    /\ pc = "text"
    /\ UNCHANGED coerce
    /\ UNCHANGED decode
    /\ UNCHANGED upload
    /\ UNCHANGED enrich
    /\ UNCHANGED poll
    /\ UNCHANGED race
    /\ UNCHANGED response
    /\ \E ok \in BOOLEAN :
        IF ok
        THEN /\ pc' = "pdf_agent"
             /\ UNCHANGED <<error_details, ret, file_closed>>
        ELSE /\ pc' = "done"
             /\ error_details' = {"pdf_extraction_error"}
             /\ ret' = outer_except({"pdf_extraction_error"}, web_results, news_data)
             /\ file_closed' = TRUE
    /\ UNCHANGED <<pdf_results, web_results, financial_data, linkedin_data, news_data,
                   alias, company_name, seen, calls, llm_calls, merge>>

\* Step 3, lines 94-103
PdfAgent ==
    /\ pc = "pdf_agent"
    /\ UNCHANGED coerce
    /\ UNCHANGED decode
    /\ UNCHANGED upload
    /\ UNCHANGED enrich
    /\ UNCHANGED poll
    /\ UNCHANGED race
    /\ UNCHANGED response
    /\ \/ \E b \in PdfBundles :
            /\ pdf_results' = b
            /\ seen' = [seen EXCEPT !.pdf = b]
            /\ UNCHANGED error_details
       \/ /\ pdf_results' = [NoResults EXCEPT !.keys = {"error"}]
          /\ seen' = [seen EXCEPT !.pdf = [NoResults EXCEPT !.keys = {"error"}]]
          /\ error_details' = error_details \cup {"pdf_agent_error"}
    /\ calls' = calls \cup {"pdf"}
    /\ pc' = "web"
    /\ UNCHANGED <<web_results, financial_data, linkedin_data, news_data, alias,
                   company_name, llm_calls, ret, file_closed, merge>>

\* WebSearchAgent.enhance_results(pdf_results): raised, the result, what it
\* shares with pdf_results, and pdf_results after the call
enhance_results(pdf, web) ==
    LET main_category == IF pdf.mc.st = "absent" THEN EmptyMC ELSE pdf.mc
        name == web_extract_company_name(main_category)
        before == enhance_before_llm(main_category, web)
    IN  IF name = "RAISE"
        THEN [raised |-> TRUE, result |-> pdf, alias |-> "top", pdf |-> pdf]
        ELSE IF ~Truthy(name)
        THEN [raised |-> FALSE, result |-> pdf, alias |-> "top", pdf |-> pdf]
        ELSE [raised |-> FALSE,
              result |-> [mc |-> _enhance_main_category(main_category, name, web),
                          metrics |-> NoMC,
                          keys |-> {"search_category", "source", "enhanced_by"}],
              alias |-> IF main_category.ci.st = "map" /\ web.reply = "nojson"
                        THEN "ci" ELSE "none",
              pdf |-> IF pdf.mc.st = "map" /\ pdf.mc.ci.st = "map"
                      THEN [pdf EXCEPT !.mc.ci = before.ci] ELSE pdf]

\* Step 4 and the company name, lines 106-124
WebSearch ==
    /\ pc = "web"
    /\ UNCHANGED coerce
    /\ UNCHANGED decode
    /\ UNCHANGED upload
    /\ UNCHANGED enrich
    /\ UNCHANGED poll
    /\ UNCHANGED race
    /\ UNCHANGED response
    /\ \E w \in WebReplies :
        LET e == enhance_results(pdf_results, w)
            web1 == IF e.raised
                    THEN [e.result EXCEPT !.keys = @ \cup {"web_search_error"}]
                    ELSE e.result
            ed == IF e.raised THEN error_details \cup {"web_search_error"}
                  ELSE error_details
            name == _extract_company_name(web1)
            web2 == IF Truthy(name) THEN web1
                    ELSE [web1 EXCEPT !.keys = @ \cup {"warning"}]
        IN  /\ web_results' = web2
            /\ alias' = e.alias
            /\ pdf_results' = sync_pdf(e.pdf, web2, e.alias)
            /\ error_details' = ed
            /\ company_name' = name
            /\ seen' = [seen EXCEPT !.web = w]
            /\ IF Truthy(name)
               THEN /\ pc' = "financial"
                    /\ UNCHANGED <<ret, file_closed>>
               ELSE /\ pc' = "done"
                    /\ ret' = [kind |-> "json", path |-> "early", body |-> web2,
                               has_error_details |-> FALSE, error_details |-> {}]
                    /\ file_closed' = TRUE
    /\ calls' = calls \cup {"web"}
    /\ UNCHANGED <<financial_data, linkedin_data, news_data, llm_calls, merge>>

\* a LinkedIn step that runs whether or not a CEO profile was found
after_financial_always_linkedin(kind, web) == "linkedin"

\* a financial step whose exception ends extract
after_financial_aborting(kind, web) ==
    IF kind = "raise" THEN "done"
    ELSE IF Truthy(_extract_linkedin_profile(web)) THEN "linkedin" ELSE "news"

\* lines 149-157: a failure of the financial step is recorded and extract goes
\* on to the LinkedIn step, which runs when a CEO profile was found
after_financial(kind, web) ==
    IF Truthy(_extract_linkedin_profile(web)) THEN "linkedin" ELSE "news"

\* Step 5 and the LinkedIn profile, lines 127-155
Financial ==
    /\ pc = "financial"
    /\ UNCHANGED coerce
    /\ UNCHANGED decode
    /\ UNCHANGED upload
    /\ UNCHANGED enrich
    /\ UNCHANGED poll
    /\ UNCHANGED race
    /\ UNCHANGED response
    /\ \E out \in FinancialOutcomes :
        LET filled == IF out.kind \in {"raise", "none"} \/ web_results.mc.st = "absent"
                      THEN web_results.mc
                      ELSE _fill_missing_financial_metrics(web_results.mc, out.data)
            web1 == IF out.kind \in {"raise", "none"} THEN web_results
                    ELSE [web_results EXCEPT !.mc = filled,
                                             !.keys = @ \cup {"financial_data"}]
        IN  /\ web_results' = web1
            /\ pdf_results' = sync_pdf(pdf_results, web1, alias)
            /\ financial_data' = IF out.kind = "raise" THEN ErrorFinancial
                                 ELSE IF out.kind = "none" THEN financial_data
                                 ELSE out.data
            /\ error_details' = IF out.kind \in {"raise", "none"}
                                THEN error_details \cup {"financial_error"}
                                ELSE error_details
            /\ seen' = [seen EXCEPT !.fin_before = web_results.mc, !.fin_kind = out.kind]
            /\ pc' = after_financial(out.kind, web1)
    /\ calls' = calls \cup {"financial"}
    /\ UNCHANGED <<linkedin_data, news_data, alias, company_name, llm_calls, ret,
                   file_closed, merge>>

\* Step 6, lines 157-166
LinkedIn ==
    /\ pc = "linkedin"
    /\ UNCHANGED coerce
    /\ UNCHANGED decode
    /\ UNCHANGED upload
    /\ UNCHANGED enrich
    /\ UNCHANGED poll
    /\ UNCHANGED race
    /\ UNCHANGED response
    /\ \E out \in LinkedinOutcomes :
        /\ linkedin_data' = out.data
        /\ error_details' = IF out.kind = "raise"
                            THEN error_details \cup {"linkedin_error"}
                            ELSE error_details
    /\ calls' = calls \cup {"linkedin"}
    /\ pc' = "news"
    /\ UNCHANGED <<pdf_results, web_results, financial_data, news_data, alias,
                   company_name, seen, llm_calls, ret, file_closed, merge>>

\* Step 7, lines 169-181
News ==
    /\ pc = "news"
    /\ UNCHANGED coerce
    /\ UNCHANGED decode
    /\ UNCHANGED upload
    /\ UNCHANGED enrich
    /\ UNCHANGED poll
    /\ UNCHANGED race
    /\ UNCHANGED response
    /\ \E out \in NewsOutcomes :
        /\ news_data' = out.data
        /\ error_details' =
              CASE out.kind = "connection_error" ->
                      error_details \cup {"news_connection_error"}
                [] out.kind = "raise" -> error_details \cup {"news_error"}
                [] OTHER -> error_details
    /\ calls' = calls \cup {"news"}
    /\ pc' = "integrate"
    /\ UNCHANGED <<pdf_results, web_results, financial_data, linkedin_data, alias,
                   company_name, seen, llm_calls, ret, file_closed, merge>>

\* Step 8 and the handlers around it, lines 184-232
Integrate ==
    /\ pc = "integrate"
    /\ UNCHANGED coerce
    /\ UNCHANGED decode
    /\ UNCHANGED upload
    /\ UNCHANGED enrich
    /\ UNCHANGED poll
    /\ UNCHANGED race
    /\ UNCHANGED response
    /\ \E fllm \in FounderLlmReplies, rllm \in RiskLlmReplies :
        \E r \in {_integrate_results(web_results, linkedin_data, news_data, fllm, rllm)} :
        \E ed \in {IF r.raised THEN error_details \cup {"integration_error"}
                   ELSE error_details} :
            /\ web_results' = r.web_after
            /\ pdf_results' = sync_pdf(pdf_results, r.web_after, alias)
            /\ error_details' = ed
            /\ llm_calls' = llm_calls + r.llm_calls
            /\ seen' = [seen EXCEPT !.int_before = web_results,
                                    !.founder_background = r.founder_background,
                                    !.risk = r.risk,
                                    !.risk_llm = IF r.llm_calls > 0 THEN rllm.kind
                                                 ELSE "none"]
            /\ ret' = IF ~r.raised
                      THEN [kind |-> "json", path |-> "consolidated",
                            body |-> r.consolidated,
                            has_error_details |-> ed # {}, error_details |-> ed]
                      ELSE IF serializable(news_data)
                      THEN [kind |-> "json", path |-> "fallback", body |-> r.web_after,
                            has_error_details |-> TRUE, error_details |-> ed]
                      ELSE outer_except(ed, r.web_after, news_data)
    /\ calls' = calls \cup {"integrate"}
    /\ file_closed' = TRUE
    /\ pc' = "done"
    /\ UNCHANGED <<financial_data, linkedin_data, news_data, alias, company_name, merge>>

\* ModularExtractor._merge_data on a pair of dicts
MergeData ==
    /\ pc = "merge"
    /\ UNCHANGED coerce
    /\ UNCHANGED decode
    /\ UNCHANGED upload
    /\ UNCHANGED enrich
    /\ UNCHANGED poll
    /\ UNCHANGED race
    /\ UNCHANGED response
    /\ \E p \in MergeInputs, w \in MergeInputs :
        merge' = [pdf |-> p, web |-> w, merged |-> _merge_data(p, w),
                  pdf_after |-> pdf_after_merge(p, _merge_data(p, w)),
                  web_after |-> w]
    /\ pc' = "merged"
    /\ UNCHANGED <<pdf_results, web_results, financial_data, linkedin_data, news_data,
                   error_details, alias, company_name, seen, calls, llm_calls, ret,
                   file_closed>>

\* _safe_int_convert, _extract_numeric_value and the revenue fill of
\* _fill_missing_financial_metrics (on a main_category without the metric)
\* applied to one text
Coerce ==
    /\ pc = "coerce"
    /\ UNCHANGED enrich
    /\ UNCHANGED poll
    /\ UNCHANGED race
    /\ \E text \in CoerceInputs :
        coerce' = [text |-> text,
                   safe_int |-> _safe_int_convert(text),
                   numeric |-> _extract_numeric_value(text),
                   filled |-> fill_metrics_from_financial(
                                  [EmptyMC EXCEPT !.f["company_name"] = "str:Acme"],
                                  FinancialModel(text)).f["annual_recurring_revenue"]]
    /\ pc' = "coerced"
    /\ UNCHANGED <<pdf_results, web_results, financial_data, linkedin_data, news_data,
                   error_details, alias, company_name, seen, calls, llm_calls, ret,
                   file_closed, merge, response, decode, upload>>

\* lines 534-539 of _process_news_for_risks and 662-667 of
\* _extract_founder_linkedin_data on one str payload, with the replies the LLM
\* gives when it is asked
DecodePayload ==
    /\ pc = "decode"
    /\ UNCHANGED enrich
    /\ UNCHANGED poll
    /\ UNCHANGED race
    /\ \E p \in Payloads, rllm \in RiskLlmReplies, fllm \in FounderLlmReplies :
        decode' = [kind |-> p.kind, mapping |-> p.mapping, text |-> p.text,
                   rllm |-> rllm, fllm |-> fllm,
                   loads |-> decode_payload(p.text).loads,
                   news |-> _process_news_for_risks(news_of_text(p.text), rllm),
                   founder |-> founder_of_text(p.text, fllm)]
    /\ pc' = "decoded"
    /\ UNCHANGED <<pdf_results, web_results, financial_data, linkedin_data, news_data,
                   error_details, alias, company_name, seen, calls, llm_calls, ret,
                   file_closed, merge, response, coerce, upload>>

\* an attribute test that every key passes
hasattr_anything(metrics, k) == TRUE

\* hasattr(metrics, field_name): the fields of the model
hasattr(metrics, k) == k \in SMFields

\* an update that writes whatever the field holds
update_overwriting(metrics, source) ==
    [k \in DOMAIN metrics \cup {k \in EnrichKeys : source[k] # Absent /\ hasattr(metrics, k)} |->
        IF k \in EnrichKeys /\ source[k] # Absent THEN source[k] ELSE metrics[k]]

\* model_util.py lines 262-264 for one data_source: a key the model has as an
\* attribute is set when the attribute is falsy
update_from(metrics, source) ==
    [k \in DOMAIN metrics \cup {k \in EnrichKeys : source[k] # Absent /\ hasattr(metrics, k)} |->
        IF k \in EnrichKeys /\ source[k] # Absent /\ hasattr(metrics, k)
           /\ (k \notin DOMAIN metrics \/ ~Truthy(metrics[k]))
        THEN source[k] ELSE metrics[k]]

\* enrich_startup_metrics_from_web, lines 249-269: the three searches run
\* before any field is set, and an exception of one of them is caught
enrich_startup_metrics_from_web(existing, company, financial, advanced, raises) ==
    IF raises # "none" THEN existing
    ELSE update_from(update_from(update_from(existing, company), financial), advanced)

Enrich ==
    /\ pc = "enrich"
    /\ \E e \in ExistingMetrics, c \in CompanyData, f \in FinancialData,
          a \in AdvancedData, raises \in {"none", "company", "financial", "advanced"} :
        enrich' = [before |-> e, company |-> c, financial |-> f, advanced |-> a,
                   raises |-> raises,
                   after |-> enrich_startup_metrics_from_web(e, c, f, a, raises)]
    /\ pc' = "enriched"
    /\ UNCHANGED <<pdf_results, web_results, financial_data, linkedin_data, news_data,
                   error_details, alias, company_name, seen, calls, llm_calls, ret,
                   file_closed, merge, response, coerce, decode, upload, poll, race>>

\* shutil.copyfileobj(file.file, buffer) into a file opened with "wb": the file
\* holds what the stream gives from its position on, and the stream is at its end
copyfileobj(u) ==
    [u EXCEPT !.disk = SubSeq(u.stream, u.pos + 1, Len(u.stream)),
              !.pos = Len(u.stream)]

\* SimplePDFExtractor._extract_text_from_pdf: PyPDF2 raises on a file that is
\* no PDF and the handler gives the empty text
_extract_text_from_pdf(disk) ==
    IF disk # <<>> /\ Head(disk) = "%" THEN Tail(disk) ELSE <<>>

\* the keys of the dict SimplePDFExtractor.extract returns as JSON text: the
\* error dict, or the dump of the Category without its None fields
SimpleExtractKeys ==
    {{"error"}, {}, {"company_name"}, {"company_name", "annual_recurring_revenue"}}

\* upload_pdf, controller.py 39-206: the response for the dict the extractor
\* returned.  Without a startup_metrics and without a main_category key the
\* dict is passed on as it is
upload_response(keys) ==
    [status |-> "200",
     has_metrics |-> "startup_metrics" \in keys \/ "main_category" \in keys,
     startup_metrics |-> DefaultMetrics]

\* PDFWebSearchExtractor.extract, lines 42-44: the upload is saved
UploadSave ==
    /\ pc = "upload"
    /\ UNCHANGED enrich
    /\ UNCHANGED poll
    /\ UNCHANGED race
    /\ upload' = copyfileobj(upload)
    /\ pc' = "up_saved"
    /\ UNCHANGED <<pdf_results, web_results, financial_data, linkedin_data, news_data,
                   error_details, alias, company_name, seen, calls, llm_calls, ret,
                   file_closed, merge, response, coerce, decode>>

\* SimplePDFExtractor.extract, lines 41-43: the upload is saved again, to the
\* same path
UploadSaveAgain ==
    /\ pc = "up_saved"
    /\ UNCHANGED enrich
    /\ UNCHANGED poll
    /\ UNCHANGED race
    /\ upload' = copyfileobj(upload)
    /\ pc' = "up_resaved"
    /\ UNCHANGED <<pdf_results, web_results, financial_data, linkedin_data, news_data,
                   error_details, alias, company_name, seen, calls, llm_calls, ret,
                   file_closed, merge, response, coerce, decode>>

\* SimplePDFExtractor.extract, line 47: the text of the file on disk
UploadExtractText ==
    /\ pc = "up_resaved"
    /\ UNCHANGED enrich
    /\ UNCHANGED poll
    /\ UNCHANGED race
    /\ upload' = [upload EXCEPT !.disk_at_extract = upload.disk,
                                !.text = _extract_text_from_pdf(upload.disk)]
    /\ pc' = "up_text"
    /\ UNCHANGED <<pdf_results, web_results, financial_data, linkedin_data, news_data,
                   error_details, alias, company_name, seen, calls, llm_calls, ret,
                   file_closed, merge, response, coerce, decode>>

\* SimplePDFExtractor.extract, lines 49-63, and PDFWebSearchExtractor.extract,
\* lines 49-71: the dict of the extraction; enhance_results finds no
\* main_category in it and returns it unchanged; the stream is closed
UploadExtract ==
    /\ pc = "up_text"
    /\ UNCHANGED enrich
    /\ UNCHANGED poll
    /\ UNCHANGED race
    /\ \E keys \in SimpleExtractKeys :
        upload' = [upload EXCEPT !.keys = keys]
    /\ file_closed' = TRUE
    /\ pc' = "up_extracted"
    /\ UNCHANGED <<pdf_results, web_results, financial_data, linkedin_data, news_data,
                   error_details, alias, company_name, seen, calls, llm_calls, ret,
                   merge, response, coerce, decode>>

\* upload_pdf, controller.py 39-216
UploadRespond ==
    /\ pc = "up_extracted"
    /\ UNCHANGED enrich
    /\ UNCHANGED poll
    /\ UNCHANGED race
    /\ response' = upload_response(upload.keys)
    /\ pc' = "up_responded"
    /\ UNCHANGED <<pdf_results, web_results, financial_data, linkedin_data, news_data,
                   error_details, alias, company_name, seen, calls, llm_calls, ret,
                   file_closed, merge, coerce, decode, upload>>

\* a sentiment rule that looks for "negative" first
response_sentiment_negative_first(tone) ==
    IF Contains(Lower(tone), Negative) THEN "str:negative"
    ELSE IF Contains(Lower(tone), Positive) THEN "str:positive"
    ELSE "str:neutral"

\* controller.py 459-465: the sentiment the response mapping derives from the
\* tone (a tone that is no string counts as "")
response_sentiment(tone) ==
    IF Contains(Lower(tone), Positive) THEN "str:positive"
    ELSE IF Contains(Lower(tone), Negative) THEN "str:negative"
    ELSE "str:neutral"

\* controller.py 397-468: formatted_metrics built from extract's decoded
\* output r; search_name is search_category["company_name"].  The fallback and
\* error responses of extract have no main_category key but carry
\* linkedin_data and news_data
orchestrate_metrics(r, ld, nd, search_name) ==
    LET has_mc == r.path \in {"consolidated", "early"} /\ r.body.mc.st # "absent"
        mc == r.body.mc
        company_info == IF has_mc /\ ci_truthy(mc.ci) THEN mc.ci.f ELSE EmptyF(CIFields)
        from_main(k) ==
            IF has_mc /\ k \in MCFields /\ NonNull(mc.f[k]) THEN mc.f[k]
            ELSE IF k \in CIFields /\ NonNull(company_info[k]) THEN company_info[k]
            ELSE Null
        fm1 == [k \in SMFields |-> from_main(k)]
        fm2 == IF has_mc /\ ~Truthy(fm1["company_name"])
               THEN IF Truthy(mc.f["company_name"])
                    THEN [fm1 EXCEPT !["company_name"] = mc.f["company_name"]]
                    ELSE IF "search_category" \in r.body.keys /\ search_name # Absent
                    THEN [fm1 EXCEPT !["company_name"] = search_name]
                    ELSE fm1
               ELSE fm1
        ld_in == IF r.path \in {"fallback", "error"} THEN ld.st # "empty"
                 ELSE "linkedin_data" \in r.body.keys
        nd_in == IF r.path \in {"fallback", "error"} THEN nd.st # "empty"
                 ELSE "news_data" \in r.body.keys
        fm3 == IF ld_in /\ ~Truthy(fm2["founder_linkedin_summary"]) /\ ld.summary # Absent
               THEN [fm2 EXCEPT !["founder_linkedin_summary"] = ld.summary]
               ELSE fm2
        fm4 == IF nd_in /\ ~Truthy(fm3["news_sentiment"]) /\ nd.st = "model"
               THEN [fm3 EXCEPT !["news_sentiment"] = response_sentiment(nd.tone)]
               ELSE fm3
    IN  IF nd_in /\ ~Truthy(fm4["recent_news_summary"]) /\ nd.st = "model"
        THEN [fm4 EXCEPT !["recent_news_summary"] = StrVal(nd.summary)]
        ELSE fm4

\* controller.py 369-375: a file whose name does not end in .pdf is refused
\* before the orchestrator is built
RejectUpload ==
    /\ pc = "save"
    /\ UNCHANGED coerce
    /\ UNCHANGED decode
    /\ UNCHANGED upload
    /\ UNCHANGED enrich
    /\ UNCHANGED poll
    /\ UNCHANGED race
    /\ pc' = "responded"
    /\ response' = [status |-> "400", has_metrics |-> FALSE,
                    startup_metrics |-> DefaultMetrics]
    /\ file_closed' = TRUE
    /\ UNCHANGED <<pdf_results, web_results, financial_data, linkedin_data, news_data,
                   error_details, alias, company_name, seen, calls, llm_calls, ret,
                   merge>>

\* controller.py 381-496: orchestrate_analysis after extract.  An exception of
\* extract, or of the mapping on a main_category that is None, gives the 500
\* response of lines 484-493
OrchestrateResponse ==
    /\ pc = "done"
    /\ UNCHANGED coerce
    /\ UNCHANGED decode
    /\ UNCHANGED upload
    /\ UNCHANGED enrich
    /\ UNCHANGED poll
    /\ UNCHANGED race
    /\ pc' = "responded"
    /\ \E search_name \in {IF seen.pdf.metrics.st = "map" /\ seen.pdf.mc.st = "map"
                            THEN seen.pdf.mc.f["company_name"] ELSE Absent} :
        response' =
            IF ret.kind # "json"
               \/ (ret.path \in {"consolidated", "early"} /\ ret.body.mc.st = "null")
            THEN [status |-> "500", has_metrics |-> FALSE,
                  startup_metrics |-> DefaultMetrics]
            ELSE [status |-> "200", has_metrics |-> TRUE,
                  startup_metrics |->
                      orchestrate_metrics(ret, linkedin_data, news_data, search_name)]
    /\ UNCHANGED <<pdf_results, web_results, financial_data, linkedin_data, news_data,
                   error_details, alias, company_name, seen, calls, llm_calls, ret,
                   file_closed, merge>>

-----------------------------------------------------------------------------
(* The assistants run of _analyze_pdf and process_pdf_with_chatgpt          *)

\* a loop that goes on sleeping when the run has expired
poll_outcome_ignoring_expired(status) ==
    IF status = "completed" THEN "break"
    ELSE IF status \in {"failed", "cancelled"} THEN "raise"
    ELSE "sleep"

\* the body of `while True`: break on completed, raise on failed, cancelled or
\* expired, time.sleep(1) and another round on everything else
poll_outcome(status) ==
    IF status = "completed" THEN "break"
    ELSE IF status \in {"failed", "cancelled", "expired"} THEN "raise"
    ELSE "sleep"

\* "Clean up resources": client.files.delete, then client.beta.assistants.delete;
\* a delete that raises leaves what it was to delete, and what comes after it
clean_up(outcome, p) ==
    CASE outcome = "deleted" ->
            [p EXCEPT !.file = "deleted", !.assistant = "deleted", !.result = "returned"]
      [] outcome = "file_delete_raises" ->
            [p EXCEPT !.result = "raised"]
      [] OTHER ->
            [p EXCEPT !.file = "deleted", !.result = "raised"]

\* client.files.create(file=..., purpose="assistants")
CreateFile ==
    /\ pc = "openai"
    /\ \E fn \in PollingFunctions, raised \in BOOLEAN :
        IF raised
        THEN /\ poll' = [poll EXCEPT !.fn = fn, !.result = "raised"]
             /\ pc' = "oa_done"
        ELSE /\ poll' = [poll EXCEPT !.fn = fn, !.file = "live"]
             /\ pc' = "oa_file"
    /\ UNCHANGED <<pdf_results, web_results, financial_data, linkedin_data, news_data,
                   error_details, alias, company_name, seen, calls, llm_calls, ret,
                   file_closed, merge, response, coerce, decode, upload, enrich, race>>

\* client.beta.assistants.create(...)
CreateAssistant ==
    /\ pc = "oa_file"
    /\ \E raised \in BOOLEAN :
        IF raised
        THEN /\ poll' = [poll EXCEPT !.result = "raised"]
             /\ pc' = "oa_done"
        ELSE /\ poll' = [poll EXCEPT !.assistant = "live"]
             /\ pc' = "oa_assistant"
    /\ UNCHANGED <<pdf_results, web_results, financial_data, linkedin_data, news_data,
                   error_details, alias, company_name, seen, calls, llm_calls, ret,
                   file_closed, merge, response, coerce, decode, upload, enrich, race>>

\* threads.create, threads.messages.create, threads.runs.create
StartRun ==
    /\ pc = "oa_assistant"
    /\ \E raised \in BOOLEAN :
        IF raised
        THEN /\ poll' = [poll EXCEPT !.result = "raised"]
             /\ pc' = "oa_done"
        ELSE /\ poll' = [poll EXCEPT !.status = "queued"]
             /\ pc' = "oa_polling"
    /\ UNCHANGED <<pdf_results, web_results, financial_data, linkedin_data, news_data,
                   error_details, alias, company_name, seen, calls, llm_calls, ret,
                   file_closed, merge, response, coerce, decode, upload, enrich, race>>

\* the remote side: a run that is not over shows another status; a run that
\* completed, failed, was cancelled, expired or ended incomplete stays so
RemoteRunAdvances ==
    /\ pc = "oa_polling"
    /\ poll.status \notin FinalStatuses \cup {"incomplete"}
    /\ \E s \in RunStatuses \ {poll.status} :
        poll' = [poll EXCEPT !.status = s]
    /\ UNCHANGED pc
    /\ UNCHANGED <<pdf_results, web_results, financial_data, linkedin_data, news_data,
                   error_details, alias, company_name, seen, calls, llm_calls, ret,
                   file_closed, merge, response, coerce, decode, upload, enrich, race>>

\* one round of the loop in which runs.retrieve answers
PollRun ==
    /\ pc = "oa_polling"
    /\ \E o \in {poll_outcome(poll.status)} :
        /\ poll' = [poll EXCEPT !.last = poll.status,
                                !.polls = IF @ < MaxPolls THEN @ + 1 ELSE @,
                                !.left = IF o = "sleep" THEN "none" ELSE o,
                                !.result = IF o = "raise" THEN "raised" ELSE @]
        /\ pc' = CASE o = "break" -> "oa_messages"
                   [] o = "raise" -> "oa_done"
                   [] OTHER -> "oa_polling"
    /\ UNCHANGED <<pdf_results, web_results, financial_data, linkedin_data, news_data,
                   error_details, alias, company_name, seen, calls, llm_calls, ret,
                   file_closed, merge, response, coerce, decode, upload, enrich, race>>

\* one round of the loop in which runs.retrieve raises
RetrieveRaises ==
    /\ pc = "oa_polling"
    /\ poll' = [poll EXCEPT !.left = "retrieve_raised", !.result = "raised"]
    /\ pc' = "oa_done"
    /\ UNCHANGED <<pdf_results, web_results, financial_data, linkedin_data, news_data,
                   error_details, alias, company_name, seen, calls, llm_calls, ret,
                   file_closed, merge, response, coerce, decode, upload, enrich, race>>

\* threads.messages.list and what is made of it: process_pdf_with_chatgpt
\* returns at once when there is no message or no assistant content
ReadMessages ==
    /\ pc = "oa_messages"
    /\ \E reply \in {"raises", "no_messages", "no_content", "text"} :
        CASE reply = "raises" ->
                /\ poll' = [poll EXCEPT !.result = "raised"]
                /\ pc' = "oa_done"
          [] reply \in {"no_messages", "no_content"}
             /\ poll.fn = "process_pdf_with_chatgpt" ->
                /\ poll' = [poll EXCEPT !.result = "returned"]
                /\ pc' = "oa_done"
          [] OTHER ->
                /\ UNCHANGED poll
                /\ pc' = "oa_cleanup"
    /\ UNCHANGED <<pdf_results, web_results, financial_data, linkedin_data, news_data,
                   error_details, alias, company_name, seen, calls, llm_calls, ret,
                   file_closed, merge, response, coerce, decode, upload, enrich, race>>

\* the two deletes, and the return that follows them
CleanUp ==
    /\ pc = "oa_cleanup"
    /\ \E outcome \in {"deleted", "file_delete_raises", "assistant_delete_raises"} :
        poll' = clean_up(outcome, poll)
    /\ pc' = "oa_done"
    /\ UNCHANGED <<pdf_results, web_results, financial_data, linkedin_data, news_data,
                   error_details, alias, company_name, seen, calls, llm_calls, ret,
                   file_closed, merge, response, coerce, decode, upload, enrich, race>>

-----------------------------------------------------------------------------
(* Two requests with one filename                                           *)

\* inside one event loop a handler that never awaits runs from its save to its
\* read before the other moves; worker processes interleave freely
may_step(rc, r) ==
    rc.mode = "workers"
    \/ \A o \in Requests \ {r} : rc.req[o].at \in {"start", "read"}

\* PdfReader over the path: the text of what the file holds at that moment;
\* a file that was opened for writing and not yet written has no pages to read
text_of_disk(rc, r) == IF rc.disk = "empty" THEN "RAISE" ELSE rc.disk

\* open(uploads/<filename>, "wb"): the file is there and empty
RaceOpen ==
    /\ pc = "race"
    /\ \E r \in Requests :
        /\ race.req[r].at = "start"
        /\ may_step(race, r)
        /\ race' = [race EXCEPT !.disk = "empty", !.req[r].at = "opened"]
    /\ UNCHANGED pc
    /\ UNCHANGED <<pdf_results, web_results, financial_data, linkedin_data, news_data,
                   error_details, alias, company_name, seen, calls, llm_calls, ret,
                   file_closed, merge, response, coerce, decode, upload, enrich, poll>>

\* f.write(file.file.read()), or shutil.copyfileobj, and the close of the file
RaceWrite ==
    /\ pc = "race"
    /\ \E r \in Requests :
        /\ race.req[r].at = "opened"
        /\ may_step(race, r)
        /\ race' = [race EXCEPT !.disk = race.req[r].own, !.req[r].at = "saved"]
    /\ UNCHANGED pc
    /\ UNCHANGED <<pdf_results, web_results, financial_data, linkedin_data, news_data,
                   error_details, alias, company_name, seen, calls, llm_calls, ret,
                   file_closed, merge, response, coerce, decode, upload, enrich, poll>>

\* the extraction opens the path again and reads what is there
RaceRead ==
    /\ pc = "race"
    /\ \E r \in Requests :
        /\ race.req[r].at = "saved"
        /\ may_step(race, r)
        /\ race' = [race EXCEPT !.req[r].text = text_of_disk(race, r),
                                !.req[r].at = "read"]
    /\ UNCHANGED pc
    /\ UNCHANGED <<pdf_results, web_results, financial_data, linkedin_data, news_data,
                   error_details, alias, company_name, seen, calls, llm_calls, ret,
                   file_closed, merge, response, coerce, decode, upload, enrich, poll>>

Next ==
    \/ SaveFile
    \/ ExtractText
    \/ PdfAgent
    \/ WebSearch
    \/ Financial
    \/ LinkedIn
    \/ News
    \/ Integrate
    \/ MergeData
    \/ Coerce
    \/ DecodePayload
    \/ UploadSave
    \/ UploadSaveAgain
    \/ UploadExtractText
    \/ UploadExtract
    \/ UploadRespond
    \/ Enrich
    \/ RejectUpload
    \/ OrchestrateResponse
    \/ CreateFile
    \/ CreateAssistant
    \/ StartRun
    \/ RemoteRunAdvances
    \/ PollRun
    \/ RetrieveRaises
    \/ ReadMessages
    \/ CleanUp
    \/ RaceOpen
    \/ RaceWrite
    \/ RaceRead

Spec == Init /\ [][Next]_vars

\* the assistants call on its own
PollInit == Init /\ pc = "openai"

PollNext ==
    \/ CreateFile
    \/ CreateAssistant
    \/ StartRun
    \/ RemoteRunAdvances
    \/ PollRun
    \/ RetrieveRaises
    \/ ReadMessages
    \/ CleanUp

\* the thread that runs the loop is not suspended: while runs.retrieve answers,
\* another round of the loop follows the sleep
PollSpec == PollInit /\ [][PollNext]_vars /\ WF_vars(PollRun)


-----------------------------------------------------------------------------
(* Properties: priority between the sources                                *)

ARR == "annual_recurring_revenue"

\* the web step ran WebSearchAgent._enhance_main_category and extract is right
\* behind it
WebEnhanced ==
    /\ pc = "financial" \/ (pc = "done" /\ ret.path = "early")
    /\ "enhanced_by" \in web_results.keys
    /\ seen.pdf.mc.st = "map"

\* C1: a metric for which the PDF extraction and the web search both supply a
\* non-null value (0 and false included) holds the PDF value in the record that
\* web enhancement produces.
C1_PdfValueSurvivesWeb ==
    (WebEnhanced /\ NonNull(seen.pdf.mc.f[ARR]) /\ NonNull(seen.web.financial_data[ARR]))
        => web_results.mc.f[ARR] = seen.pdf.mc.f[ARR]

\* the financial step filled main_category from a FinancialModel and extract
\* is right behind it
FinancialFilled ==
    /\ pc \in {"linkedin", "news"}
    /\ seen.fin_kind = "ok"
    /\ seen.fin_before.st = "map"

\* C2: in every fill or merge step a higher-priority value that is None or ""
\* never suppresses a populated lower-priority value: the result holds the
\* lower-priority value.  Stated for _merge_data (top level and company_info),
\* for the company_info fill of _fill_missing_financial_metrics, and for the
\* company_info fill of _enhance_main_category.
C2_EmptyNeverSuppresses ==
    /\ pc = "merged" =>
          /\ \A k \in MCFields :
                (merge.pdf.f[k] \in {Null, EmptyStr} /\ Truthy(merge.web.f[k]))
                    => merge.merged.f[k] = merge.web.f[k]
          /\ \A k \in CIFields :
                (/\ merge.pdf.ci.st = "map" /\ merge.web.ci.st = "map"
                 /\ merge.pdf.ci.f[k] \in {Null, EmptyStr} /\ Truthy(merge.web.ci.f[k]))
                    => merge.merged.ci.f[k] = merge.web.ci.f[k]
    /\ (/\ FinancialFilled
        /\ seen.fin_before.ci.st = "map"
        /\ seen.fin_before.ci.f["industry"] \in {Null, EmptyStr}
        /\ Truthy(financial_data.sic_description))
            => web_results.mc.ci.f["industry"] = financial_data.sic_description
    /\ (/\ WebEnhanced
        /\ seen.web.reply = "nojson"
        /\ seen.pdf.mc.ci.st = "map"
        /\ seen.pdf.mc.ci.f["industry"] \in {Null, EmptyStr}
        /\ Truthy(seen.web.company_data["industry"]))
            => web_results.mc.ci.f["industry"] = seen.web.company_data["industry"]

\* extract returned the consolidated record after a financial step that had a
\* FinancialModel with a revenue to fill from
ConsolidatedWithSec ==
    /\ pc = "done" /\ ret.path = "consolidated"
    /\ seen.fin_kind = "ok" /\ financial_data.revenue # <<>>
    /\ seen.fin_before.st = "map"

\* the PDF extraction has no value for the metric, the web search and the SEC
\* agent both have one
C3_Case ==
    /\ ConsolidatedWithSec
    /\ "enhanced_by" \in ret.body.keys
    /\ seen.pdf.mc.st = "map" /\ ~NonNull(seen.pdf.mc.f[ARR])
    /\ Truthy(seen.web.financial_data[ARR])

Consolidated == pc = "done" /\ ret.path = "consolidated"

-----------------------------------------------------------------------------
(* Properties: failures of the sources                                     *)

StepFailed ==
    error_details \cap {"financial_error", "linkedin_error", "news_error",
                        "news_connection_error"} # {}

\* C6: a failure of any one of the financial, LinkedIn or news steps does not
\* abort extract: the financial and news steps were attempted, the LinkedIn step
\* was attempted exactly when a CEO profile was found, and _integrate_results
\* ran.
C6_FailureDoesNotAbort ==
    (pc = "done" /\ StepFailed) =>
        /\ {"financial", "news", "integrate"} \subseteq calls
        /\ "linkedin" \in calls <=> Truthy(_extract_linkedin_profile(seen.int_before))

C6_Witness ==
    /\ pc = "done"
    /\ {"financial_error", "linkedin_error"} \subseteq error_details
    /\ {"linkedin", "news", "integrate"} \subseteq calls
    /\ news_data.st = "model"
    /\ ret.path = "consolidated"

RiskFields == {"regulatory_risks", "trend_risks", "news_sentiment", "recent_news_summary"}

\* C7: when the news bundle is missing or its retrieval failed, the four risk
\* and sentiment fields stay null in the record and the classifier's LLM is not
\* run.
C7_NoNewsNoRiskFields ==
    (Consolidated /\ news_data.st \in {"empty", "error"} /\ seen.int_before.mc.st = "map") =>
        /\ \A k \in RiskFields : ~NonNull(ret.body.mc.f[k])
        /\ llm_calls = 0

FounderFields == {"founder_background", "founder_linkedin_summary"}

\* C8: a failed collaborator contributes no field values: after a failure of the
\* financial agent's processing _fill_missing_financial_metrics leaves
\* main_category (company_info included) as it was, and after a failure of the
\* LinkedIn agent _integrate_results leaves the founder fields as they were.
C8_FailedSourceWritesNothing ==
    /\ (pc \in {"linkedin", "news"} /\ seen.fin_kind = "procfail")
          => web_results.mc = seen.fin_before
    /\ (Consolidated /\ linkedin_data.st = "error" /\ seen.int_before.mc.st = "map")
          => \A k \in FounderFields : ret.body.mc.f[k] = seen.int_before.mc.f[k]

-----------------------------------------------------------------------------
(* Properties: the LLM fallback of the news classifier                     *)

\* the keyword pass of _process_news_for_risks sets a flag for the bundle
KeywordPassHit(nd) ==
    keyword_hit(regulatory_lowered, nd) \/ keyword_hit(trend_risk_lowered, nd)

\* _integrate_results ran on a news bundle that is a mapping: a NewsModel or
\* the error dict of a failed retrieval, the bundles extract passes
ClassifiedMapping ==
    /\ pc = "done" /\ "integrate" \in calls
    /\ news_data.st \in {"model", "error"}

\* C9: the LLM fallback of _process_news_for_risks is never invoked when the
\* keyword pass set either risk flag, and it is invoked exactly once when the
\* bundle is a mapping in which the keyword pass matched nothing.
C9_FallbackOnlyWithoutMatch ==
    ClassifiedMapping =>
        /\ KeywordPassHit(news_data) => (llm_calls = 0 /\ seen.risk_llm = "none")
        /\ ~KeywordPassHit(news_data) => (llm_calls = 1 /\ seen.risk_llm # "none")

C9_Witness ==
    /\ ClassifiedMapping
    /\ news_data.st = "model"
    /\ KeywordPassHit(news_data)
    /\ seen.risk.ra.regulatory_risks = TrueV
    /\ llm_calls = 0

\* C10: when the LLM fallback raises, or returns text that cannot be decoded as
\* JSON, _process_news_for_risks returns with regulatory_risks and trend_risks
\* false and does not raise.
C10_FallbackFailureLeavesFlagsFalse ==
    (pc = "done" /\ "integrate" \in calls /\ seen.risk_llm \in {"raise", "garbage"}) =>
        /\ ~seen.risk.raised
        /\ seen.risk.ra.regulatory_risks = FalseV
        /\ seen.risk.ra.trend_risks = FalseV

C10_Witness ==
    /\ pc = "done" /\ "integrate" \in calls
    /\ seen.risk_llm = "raise"
    /\ llm_calls = 1
    /\ ~seen.risk.raised
    /\ seen.risk.ra.regulatory_risks = FalseV
    /\ ret.path = "consolidated"


-----------------------------------------------------------------------------
(* Properties: the keyword pass and the sentiment                          *)

\* a term of the vocabulary is a substring, whatever the case, of the text or
\* of an element of the keyword list
VocabularyOccurs(terms, nd) ==
    \/ \E kw \in terms : Contains(Lower(full_text(nd)), kw)
    \/ \E kw \in terms : \E i \in 1..Len(nd.keywords) :
            Contains(Lower(nd.keywords[i]), kw)

\* _integrate_results classified a NewsModel
ClassifiedModel ==
    /\ pc = "done" /\ "integrate" \in calls
    /\ news_data.st = "model"

\* C11: regulatory_risks (resp. trend_risks) returned by
\* _process_news_for_risks is true if and only if the text or the keyword list
\* contains, as a case-insensitive substring, a term of the regulatory (resp.
\* trend) vocabulary.
C11_FlagIffVocabulary ==
    ClassifiedModel =>
        /\ seen.risk.ra.regulatory_risks = TrueV
              <=> VocabularyOccurs(regulatory_lowered, news_data)
        /\ seen.risk.ra.trend_risks = TrueV
              <=> VocabularyOccurs(trend_risk_lowered, news_data)


\* the sentiment the rule gives for a tone: "positive" is looked for first
ClaimedSentiment(tone) ==
    LET pos == Contains(Lower(tone), Positive)
        neg == Contains(Lower(tone), Negative)
    IN  IF pos THEN "str:positive"
        ELSE IF neg THEN "str:negative"
        ELSE "str:neutral"

\* /orchestrate/ answered 200 on the consolidated record of a NewsModel
RespondedWithNews ==
    /\ pc = "responded" /\ response.status = "200"
    /\ ret.path = "consolidated"
    /\ news_data.st = "model"

\* C12: news_sentiment is "positive" when the tone contains "positive" in any
\* case, otherwise "negative" when it contains "negative", otherwise "neutral",
\* in the result of _process_news_for_risks and in the startup_metrics of the
\* /orchestrate/ response.
C12_SentimentFirstMatch ==
    /\ ClassifiedModel =>
          seen.risk.ra.news_sentiment = ClaimedSentiment(news_data.tone)
    /\ RespondedWithNews =>
          response.startup_metrics["news_sentiment"] = ClaimedSentiment(news_data.tone)

\* both words occur, "negative" first, and the response mapping derives the
\* sentiment itself because the results have no main_category
C12_Witness ==
    /\ RespondedWithNews
    /\ Contains(Lower(news_data.tone), Positive)
    /\ Contains(Lower(news_data.tone), Negative)
    /\ ret.body.mc.st = "absent"
    /\ seen.risk.ra.news_sentiment = "str:positive"
    /\ response.startup_metrics["news_sentiment"] = "str:positive"


-----------------------------------------------------------------------------
(* Properties: numeric coercion                                            *)

\* a text without its last character and without "$", "," and blanks
SuffixBody(text) ==
    without(without(without(SubSeq(text, 1, Len(text) - 1), "$"), ","), " ")

\* a number followed by k, m or b, in either case
SuffixedNumber(text) ==
    /\ Len(text) > 1
    /\ LowerChar(text[Len(text)]) \in DOMAIN multipliers
    /\ SuffixBody(text) # <<>>
    /\ \A i \in 1..Len(SuffixBody(text)) : IsDigit(SuffixBody(text)[i])

\* C13: _safe_int_convert applies the k/m/b multiplier to a number that carries
\* currency symbols and commas: "$1,200k" gives 1200000, and a number followed
\* by k, m or b comes back multiplied by 1000, 1000000 or 1000000000.
C13_SuffixMultiplied ==
    (pc = "coerced" /\ SuffixedNumber(coerce.text)) =>
        coerce.safe_int =
            IntVal(DigitsToInt(SuffixBody(coerce.text), 0)
                   * multipliers[LowerChar(coerce.text[Len(coerce.text)])])

\* C14: a value that cannot be converted to a number is treated as absent:
\* _safe_int_convert and _extract_numeric_value give None, and
\* _fill_missing_financial_metrics leaves the target field unset.
C14_UnconvertibleIsAbsent ==
    (pc = "coerced" /\ coerce.text # <<>> /\ first_digit(coerce.text) = 0) =>
        /\ coerce.safe_int = Null
        /\ coerce.numeric = Null
        /\ coerce.filled = Absent

\* digits, then possibly a dot and at least one digit
DecimalText(text) ==
    /\ first_digit(text) = 1
    /\ LET j == run_end(text, 1, DigitSet)
       IN  \/ j = Len(text) + 1
           \/ /\ text[j] = "." /\ j < Len(text)
              /\ run_end(text, j + 1, DigitSet) = Len(text) + 1

\* the nearest integer of a decimal text, halves going up
Nearest(text) ==
    LET j == run_end(text, 1, DigitSet)
    IN  int_of_float(text)
        + (IF j < Len(text) /\ DigitVal(text[j + 1]) >= 5 THEN 1 ELSE 0)

\* C15: every value produced by numeric coercion is an integer, a fractional
\* input being rounded to the nearest integer ("15.7" gives 16), in
\* _safe_int_convert and in _fill_missing_financial_metrics.
C15_RoundedInteger ==
    (pc = "coerced" /\ DecimalText(coerce.text)) =>
        /\ coerce.safe_int = IntVal(Nearest(coerce.text))
        /\ coerce.filled = IntVal(Nearest(coerce.text))


-----------------------------------------------------------------------------
(* Properties: str payloads                                                *)

DefaultNewsResult == [ra |-> DefaultRisk, llm_calls |-> 0, raised |-> FALSE]
DefaultFounderResult == [fm |-> DefaultFounder, llm_calls |-> 0, raised |-> FALSE]

\* C16: _process_news_for_risks and _extract_founder_linkedin_data give for the
\* JSON text of a mapping what they give for the mapping, and decode a str
\* payload exactly once (the JSON text of a JSON text is not decoded further);
\* a text that cannot be decoded gives the defaults, without an exception and
\* without a call of the LLM.
C16_TextAsMapping ==
    pc = "decoded" =>
        /\ decode.loads = 1
        /\ decode.kind = "dict" =>
            /\ decode.news = _process_news_for_risks(news_of_mapping(decode.mapping),
                                                     decode.rllm)
            /\ decode.founder = founder_of_mapping(decode.mapping, decode.fllm)
        /\ decode.kind \in {"undecodable", "twice"} =>
            /\ decode.news = DefaultNewsResult
            /\ decode.founder = DefaultFounderResult

C16_Witness ==
    /\ pc = "decoded"
    /\ decode.kind = "dict"
    /\ Quote \in {decode.mapping.title[i] : i \in 1..Len(decode.mapping.title)}
    /\ decode.news.ra.news_sentiment = "str:positive"
    /\ decode.founder.fm.founder_background = "int:4"


-----------------------------------------------------------------------------
(* Properties: the responses and the upload                                *)

\* no value for the field in a dict
Unsupplied(d, k) ==
    /\ d.st # "map" \/ d.f[k] \in {Absent, Null}
    /\ (k \in CIFields /\ d.st = "map" /\ d.ci.st = "map") => d.ci.f[k] \in {Absent, Null}

\* no source supplied the field: the PDF dicts and the web search lack it or
\* hold None for it, and no financial, LinkedIn or news data came back
NoSourceSupplied(k) ==
    /\ Unsupplied(seen.pdf.mc, k)
    /\ Unsupplied(seen.pdf.metrics, k)
    /\ seen.web.financial_data[k] \in {Absent, Null}
    /\ k \in CIFields => seen.web.company_data[k] \in {Absent, Null}
    /\ seen.web.reply = "nojson"
    /\ seen.fin_kind # "ok"
    /\ linkedin_data.st \in {"empty", "error"}
    /\ news_data.st \in {"empty", "error"}

\* C17: every 200 response of /orchestrate/ and of /upload-pdf/ carries a
\* startup_metrics record with the same fixed key set, which holds null for
\* each metric that no source supplied.
C17_FixedKeySetNullWhenUnsupplied ==
    response.status = "200" =>
        /\ response.has_metrics
        /\ DOMAIN response.startup_metrics = SMFields
        /\ \A k \in MCFields :
            (pc = "responded" /\ NoSourceSupplied(k)) =>
                response.startup_metrics[k] = Null

\* C18: in the default /upload-pdf/ workflow the file on disk holds exactly the
\* uploaded bytes at the moment SimplePDFExtractor extracts its text.
C18_DiskHoldsUploadAtExtraction ==
    pc \in {"up_text", "up_extracted", "up_responded"} =>
        upload.disk_at_extract = upload.stream


-----------------------------------------------------------------------------
(* Properties: the company name and the order of the steps                 *)

\* the company name the PDF agent's main_category carries, in company_info or
\* at its top level
PdfCompanyName == web_extract_company_name(seen.pdf.mc)

\* the web step ran without an exception and its reviewing LLM handed the
\* data back as it was
WebStepSucceeded ==
    /\ "web" \in calls
    /\ "web_search_error" \notin error_details
    /\ seen.web.reply \in {"nojson", "echo"}

\* C19: when the PDF agent's result carries a non-empty company_name and the
\* web step succeeds with the data left as it was, extract finds that name in
\* the web-enhanced results and goes on to the financial, LinkedIn and news
\* steps instead of returning early.
C19_NameFoundAfterWeb ==
    (WebStepSucceeded /\ seen.pdf.mc.st = "map" /\ Truthy(PdfCompanyName)) =>
        /\ company_name = PdfCompanyName
        /\ "financial" \in calls \/ pc = "financial"


\* the three agents that need the company name
NameAgents == {"financial", "linkedin", "news"}

\* C20: the financial and the news agent are invoked only after a non-empty
\* company name was found in the web-enhanced results, the LinkedIn agent only
\* when a non-empty linkedin_profile_ceo was found as well; when no company
\* name is found, extract returns the web-enhanced results with a warning key
\* and invokes none of the three.
C20_AgentsNeedNameAndProfile ==
    /\ (calls \cap NameAgents # {}) => Truthy(company_name)
    /\ "linkedin" \in calls =>
          /\ Truthy(_extract_linkedin_profile(web_results))
          /\ "financial" \in calls
    /\ "news" \in calls => "financial" \in calls
    /\ ("web" \in calls /\ ~Truthy(company_name)) =>
          /\ ret.kind = "json" /\ ret.path = "early"
          /\ ret.body = web_results
          /\ "warning" \in ret.body.keys
          /\ calls \cap NameAgents = {}

C20_Witness ==
    /\ pc = "done"
    /\ ret.path = "consolidated"
    /\ "news" \in calls
    /\ "linkedin" \notin calls
    /\ ~Truthy(_extract_linkedin_profile(web_results))


-----------------------------------------------------------------------------
(* Properties: what the consolidation steps write                          *)

\* the web step has run and no later step has
JustAfterWeb == "web" \in calls /\ calls \cap {"financial", "integrate"} = {}

\* C21: the consolidation steps do not modify the bundles they are given:
\* _integrate_results leaves web_results unchanged, _enhance_main_category
\* leaves main_category and its company_info unchanged, and the web-search
\* failure path of extract leaves pdf_results as the PDF agent returned it.
C21_InputsUnmodified ==
    /\ "integrate" \in calls => web_results = seen.int_before
    /\ (JustAfterWeb /\ "web_search_error" \notin error_details) =>
          pdf_results.mc = seen.pdf.mc
    /\ (JustAfterWeb /\ "web_search_error" \in error_details) =>
          pdf_results = seen.pdf


-----------------------------------------------------------------------------
(* Properties: errors                                                      *)

\* extract has returned JSON text
Returned == pc = "done" /\ ret.kind = "json"

\* C22: every error recorded in error_details during extract appears under
\* the error_details key of the returned JSON, on every return path.
C22_RecordedErrorsReturned ==
    Returned =>
        /\ error_details \subseteq ret.error_details
        /\ error_details # {} => ret.has_error_details


\* the errors of the two steps before the agents
EarlyStepErrors == {"file_save_error", "pdf_extraction_error"}

\* C23: when saving the upload or extracting its text fails, no agent is
\* invoked, and the returned JSON has an error key and an error_details entry
\* named file_save_error or pdf_extraction_error respectively.
C23_EarlyFailureReturnsError ==
    (error_details \cap EarlyStepErrors # {}) =>
        /\ calls = {}
        /\ ret.kind = "json" /\ ret.path = "error"
        /\ ret.has_error_details
        /\ ret.error_details = error_details
        /\ error_details \in {{"file_save_error"}, {"pdf_extraction_error"}}

C23_Witness ==
    /\ pc = "done"
    /\ error_details = {"pdf_extraction_error"}
    /\ ret.path = "error"
    /\ calls = {}


-----------------------------------------------------------------------------
(* Properties: the frame of _integrate_results                             *)

\* the top-level keys _integrate_results may set
IntegrationKeys == {"linkedin_data", "news_data", "analysis", "source"}

\* a dict of the result differs from the dict of the base in the founder and
\* the risk keys only
SameOutsideFounderAndRisk(after, before) ==
    /\ after.st = before.st
    /\ after.ci = before.ci
    /\ \A k \in MCFields \ (FounderFields \cup RiskFields) : after.f[k] = before.f[k]

\* C24: _integrate_results changes only the top-level keys linkedin_data,
\* news_data, analysis and source, and inside main_category and metrics only
\* the founder keys and the four risk and sentiment keys; every other key of
\* the result equals the key of web_results.
C24_IntegrationFrame ==
    ret.path = "consolidated" =>
        /\ ret.body.keys \ IntegrationKeys = seen.int_before.keys \ IntegrationKeys
        /\ IntegrationKeys \ {"linkedin_data", "news_data"} \subseteq ret.body.keys
        /\ SameOutsideFounderAndRisk(ret.body.mc, seen.int_before.mc)
        /\ SameOutsideFounderAndRisk(ret.body.metrics, seen.int_before.metrics)

C24_Witness ==
    /\ ret.path = "consolidated"
    /\ seen.int_before.mc.st = "map"
    /\ seen.int_before.mc.f["annual_recurring_revenue"] = "int:10"
    /\ seen.int_before.mc.f["founder_background"] = "int:3"
    /\ ret.body.mc.f["founder_background"] = "int:4"
    /\ ret.body.mc.f["regulatory_risks"] = TrueV
    /\ "linkedin_data" \in ret.body.keys
    /\ "linkedin_data" \notin seen.int_before.keys


-----------------------------------------------------------------------------
(* Properties: _merge_data                                                 *)

\* the keys a dict has
KeysOf(f, S) == {k \in S : f[k] # Absent}

\* one level merged with the PDF value first: the PDF value when it is there
\* and not None, else the web value when the web dict has the key
PdfPreferred(merged_f, pdf_f, web_f, S) ==
    /\ \A k \in S :
        /\ pdf_f[k] \notin {Absent, Null} => merged_f[k] = pdf_f[k]
        /\ (pdf_f[k] \in {Absent, Null} /\ web_f[k] # Absent) => merged_f[k] = web_f[k]
    /\ KeysOf(merged_f, S) = KeysOf(pdf_f, S) \cup KeysOf(web_f, S)

\* C25: _merge_data prefers PDF data: the merged value is the PDF value when it
\* is present and not None, otherwise the web value, recursively when both
\* values are mappings; the merged key set is the union of both key sets and
\* neither input mapping is modified.
C25_MergePrefersPdf ==
    pc = "merged" =>
        /\ PdfPreferred(merge.merged.f, merge.pdf.f, merge.web.f, MCFields)
        /\ (merge.pdf.ci.st = "map" /\ merge.web.ci.st = "map") =>
              /\ merge.merged.ci.st = "map"
              /\ PdfPreferred(merge.merged.ci.f, merge.pdf.ci.f, merge.web.ci.f, CIFields)
        /\ merge.pdf.ci.st = "absent" => merge.merged.ci = merge.web.ci
        /\ merge.web.ci.st = "absent" => merge.merged.ci = merge.pdf.ci
        /\ merge.pdf_after = merge.pdf
        /\ merge.web_after = merge.web

C25_Witness ==
    /\ pc = "merged"
    /\ merge.pdf.f["annual_recurring_revenue"] = "int:10"
    /\ merge.web.f["annual_recurring_revenue"] = "int:20"
    /\ merge.merged.f["annual_recurring_revenue"] = "int:10"
    /\ merge.pdf.f["industry"] = Absent
    /\ merge.merged.f["industry"] = "str:saas"
    /\ merge.pdf.ci.st = "map" /\ merge.pdf.ci.f["website_link"] = Null
    /\ merge.merged.ci.f["website_link"] = "str:url"


-----------------------------------------------------------------------------
(* Properties: enrich_startup_metrics_from_web                             *)

\* the value of a key in the three search results, in the order they are applied
Found(k) ==
    IF k \in EnrichKeys
    THEN <<enrich.company[k], enrich.financial[k], enrich.advanced[k]>>
    ELSE <<Absent, Absent, Absent>>

\* the first truthy value found for a key, Absent when there is none
FirstTruthy(k) ==
    IF Truthy(Found(k)[1]) THEN Found(k)[1]
    ELSE IF Truthy(Found(k)[2]) THEN Found(k)[2]
    ELSE IF Truthy(Found(k)[3]) THEN Found(k)[3]
    ELSE Absent

\* C26: enrich_startup_metrics_from_web never changes a field that holds a
\* truthy value; an unset field ends with the first truthy value found in the
\* order company info, financial data, advanced metrics; keys that are no
\* StartupMetrics fields are ignored; when a search raises, the metrics object
\* is returned unchanged.
C26_EnrichFillsUnsetOnly ==
    pc = "enriched" =>
        /\ DOMAIN enrich.after = SMFields
        /\ \A k \in SMFields :
            /\ Truthy(enrich.before[k]) => enrich.after[k] = enrich.before[k]
            /\ (enrich.raises = "none" /\ enrich.before[k] = Null
                /\ FirstTruthy(k) # Absent) => enrich.after[k] = FirstTruthy(k)
        /\ enrich.raises # "none" => enrich.after = enrich.before

C26_Witness ==
    /\ pc = "enriched"
    /\ enrich.raises = "none"
    /\ enrich.before["industry"] = Null
    /\ enrich.company["industry"] = EmptyStr
    /\ enrich.company["ticker"] = "str:ACME"
    /\ enrich.financial["industry"] = "str:from financial data"
    /\ enrich.financial["company_name"] = "str:Other Inc"
    /\ enrich.advanced["industry"] = "str:from advanced metrics"
    /\ enrich.after["industry"] = "str:from financial data"
    /\ enrich.after["company_name"] = "str:Acme"

-----------------------------------------------------------------------------
(* Properties: the polling loops                                            *)

Polling == pc = "oa_polling"

\* the loop was left by its break, by its raise, or by a raise of runs.retrieve
LeftLoop == poll.left # "none"

\* how the loop ended agrees with the status it had retrieved last
EndedOnFinalStatus ==
    /\ poll.left = "break" => poll.last = "completed" /\ pc \in {"oa_messages", "oa_cleanup", "oa_done"}
    /\ poll.left = "raise" => /\ poll.last \in {"failed", "cancelled", "expired"}
                              /\ poll.result = "raised"
                              /\ pc = "oa_done"
    /\ pc \in {"oa_messages", "oa_cleanup"} => poll.left = "break"

\* a round that retrieved any other status is followed by another round,
\* whatever the number of rounds before it
OtherStatusGoesOn ==
    (Polling /\ poll.status \notin FinalStatuses /\ poll'.left # "retrieve_raised"
        /\ poll'.last = poll.status /\ poll' # poll /\ poll'.status = poll.status)
    => pc' = "oa_polling"

\* C27: once the run shows completed, failed, cancelled or expired the loop
\* stops: it goes on to the messages on completed and raises on the other
\* three; a round on any other status is followed by another round, with no
\* limit on the rounds
C27_LoopStopsOnFinalStatus ==
    /\ []EndedOnFinalStatus
    /\ [][OtherStatusGoesOn]_vars
    /\ (Polling /\ poll.status \in FinalStatuses) ~> LeftLoop

\* the loop went on through MaxPolls rounds and left by its break on completed
C27_Witness ==
    /\ poll.left = "break"
    /\ poll.polls = MaxPolls
    /\ poll.last = "completed"

-----------------------------------------------------------------------------
(* Properties: what the assistants call leaves behind                       *)

\* the function returned or raised
CallOver == poll.result # "none"

\* C28: when the function returns or raises, no file and no assistant that it
\* created is left undeleted
C28_CreatedIsDeleted ==
    CallOver => poll.file # "live" /\ poll.assistant # "live"

-----------------------------------------------------------------------------
(* Properties: two requests with one filename                               *)

\* C29: of two requests with the same filename, each one that has extracted
\* its text extracted it from the bytes it uploaded itself
C29_EachReadsOwnBytes ==
    \A r \in Requests :
        race.req[r].at = "read" => race.req[r].text = race.req[r].own
====
